---------------------------- MODULE Spec2Model ----------------------------
(***************************************************************************)
(* Model of the per-device dispatch core of serial-server: the             *)
(* RequestCache, the PendingRequest completion and the WriteQueue          *)
(* (Send, sendToSerial, OnSerialData, flushResponseLoop,                   *)
(* flushResponseLocked, CleanupExpired, Start/StopCleanupTimer).           *)
(*                                                                         *)
(* Time.  The Go code stores wall-clock instants (Timestamp, SentAt,       *)
(* expireAt, dropUntil) and only ever compares them with time.Now().  The  *)
(* model stores every instant relative to the current time: an instant in  *)
(* the past as its age (now - t, in ms), an instant in the future as the   *)
(* time left (t - now, in ms).  AdvanceTime moves all of them together.    *)
(* Ages saturate at AgeCap and times left at -1; both saturations are      *)
(* exact for every comparison the code makes (see AgeCap).                 *)
(*                                                                         *)
(* Locking.  Each action is one critical section of q.mu (or one step      *)
(* made outside it); a goroutine that releases the lock in the middle of   *)
(* a function is modelled by one action per locked section.  mu is the     *)
(* lock between two actions.                                               *)
(*                                                                         *)
(* Around the queue: the error path of Listener.serialReadLoop, receives   *)
(* from a response channel, and the RequestCache used on its own.  Two     *)
(* further specifications start the flush and the reaper from every queue  *)
(* of a family instead of the empty one.                                   *)
(*                                                                         *)
(* clientIndex and ClientID are write-only bookkeeping in the source (no   *)
(* branch ever reads them) and are not part of the state.                  *)
(***************************************************************************)
EXTENDS Integers, Sequences, FiniteSets, TLC

\* ------------------------------------------------------------------ bounds
\* Number of Send calls in one run of Spec, whose clock moves from tick to
\* tick of the cleanup ticker.
MaxReq == 3
\* Number of Send calls in one run of SpecFine, whose clock also makes
\* MaxSub steps of respFlushTimeout after each tick.
MaxReqFine == 2
MaxSub == 1
\* Longest response accumulator (bytes) the device is allowed to build up.
MaxBuf == 2
\* Number of StopCleanupTimer calls in one run of SpecStop.
MaxStop == 1
\* Number of Send calls and of StopCleanupTimer calls in one run of
\* SpecStopAgain.
MaxReqAgain == 1
MaxStopAgain == 2
\* Number of clock steps the model follows after the cleanup goroutine exited.
MaxLinger == 1
\* Number of finish calls made on one request when the callers are unconstrained.
MaxCalls == 3
\* Number of receives made on one response channel.
MaxAwait == 2
\* Number of OnSerialData calls whose outcome is recorded in one run of SpecRx.
MaxRx == 2
\* Bytes read from the serial port, and read timeouts, in one run of
\* SpecFrame; the largest number of bytes one Read returns.
MaxRead == 3
MaxGap == 3
MaxChunk == 2

\* ------------------------------------------------- program constants (ms)
defaultCacheTTL == 5000
requestTimeout == 3000
respFlushTimeout == 50
dropWindow == 150
reapTick == 1000
cacheTTLMin == 1000
cacheTTLMax == 30000

respStateIdle == 0
respStateSending == 1
respStateWaiting == 2

\* The zero time.Time of an unset SentAt.
ZeroTime == -1

\* Ages saturate here.  The code compares an age with requestTimeout and
\* clamps 2 * age at cacheTTLMax, so every age >= cacheTTLMax / 2 behaves
\* alike.
AgeCap == cacheTTLMax \div 2

Reqs == 1..MaxReq

\* Request payloads and device frames (byte sequences).
Payloads == {<<1>>, <<2>>}
Frames == {<<170>>}

\* ------------------------------------------------------------- hashData
\* 64-bit values are kept as four 16-bit limbs, least significant first.
Limb == 65536

RECURSIVE BitXor(_, _)
BitXor(a, b) ==
    IF a = 0 THEN b
    ELSE IF b = 0 THEN a
    ELSE (((a % 2) + (b % 2)) % 2) + 2 * BitXor(a \div 2, b \div 2)

\* offset64 = 14695981039346656037 = 0xcbf29ce484222325
offset64 == <<8997, 33826, 40164, 52210>>
\* prime64 = 1099511628211 = 2^40 + prime64Low
prime64Low == 435

\* h * prime64 mod 2^64 = (h * prime64Low + (h << 40)) mod 2^64
MulPrime64(h) ==
    LET s0 == h[1] * prime64Low
        s1 == h[2] * prime64Low + (s0 \div Limb)
        s2 == h[3] * prime64Low + ((h[1] * 256) % Limb) + (s1 \div Limb)
        s3 == h[4] * prime64Low + ((h[2] * 256) % Limb) + (h[1] \div 256)
              + (s2 \div Limb)
    IN  <<s0 % Limb, s1 % Limb, s2 % Limb, s3 % Limb>>

RECURSIVE hashFrom(_, _)
hashFrom(hash, data) ==
    IF data = <<>> THEN hash
    ELSE hashFrom(MulPrime64([hash EXCEPT ![1] = BitXor(hash[1], Head(data))]),
                  Tail(data))

hashData(data) == hashFrom(offset64, data)


\* Fingerprints of the payloads of the model.
HashOf == [p \in Payloads |-> hashData(p)]

\* ------------------------------------------------------------------ state
VARIABLES
    reqs,           \* one record per Send call: the PendingRequest and its channel
    pending,        \* q.pending: sequence of request indices
    inflight,       \* q.inflight: hash -> request index
    waiting,        \* q.waiting: hash -> sequence of request indices
    cache,          \* q.cache.cache: hash -> [data, expireAt]
    nextReqID,      \* q.nextReqID
    respBuf,        \* q.respBuf
    respTimer,      \* q.respTimer: "nil", "armed", "fired" (value in C), "idle"
    flushLoop,      \* flushResponseLoop goroutines: in the select, past a timer receive
    currentReqID,   \* q.currentReqID
    respState,      \* q.respState
    dropUntil,      \* q.dropUntil, as time left (0: not in the future)
    stopCleanup,    \* q.stopCleanup is closed
    stopFlushLoop,  \* q.stopFlushLoop is closed
    stopCalls,      \* number of StopCleanupTimer calls so far
    linger,         \* number of clock steps since the cleanup goroutine exited
    wStart,         \* request -> number of sendToSerial goroutines before step 1
    wWriting,       \* request -> number of sendToSerial goroutines inside serial.Write
    reaper,         \* the cleanup goroutine: [pc, expired, firstWasExpired]
    sinceTick,      \* ms since the last tick of the cleanup ticker
    linkWrites,     \* history: requests handed to serial.Write, in order
    promoted,       \* history: requests that became queue head, in order
    mu,             \* q.mu between two steps: "free" or its holder
    serialReadLoop, \* Listener.serialReadLoop: "reading", "failed" (logged), "returned"
    panicked,       \* a close of a closed channel has panicked
    lastSet,        \* history: hash -> [data, expireAt] of the latest cache store
    lastSweep,      \* history: the cache before and after the direct sweep just made
    rx,             \* history: observed OnSerialData calls, [n, key of the latest]
    serialBuffer,   \* l.serialBuffer: the bytes read since the last frame
    wire            \* history: [bytes read, frames handed on, read timeouts]

vars == <<reqs, pending, inflight, waiting, cache, nextReqID, respBuf, respTimer,
          flushLoop, currentReqID, respState, dropUntil, stopCleanup,
          stopFlushLoop, stopCalls, linger, wStart, wWriting, reaper,
          sinceTick, linkWrites, promoted, mu, serialReadLoop, panicked,
          lastSet, lastSweep, rx, serialBuffer, wire>>

\* What the goroutines of the running engine never write: the read loop of
\* the Listener with its accumulator, the panic flag and the histories of
\* direct cache stores and sweeps, of observed frames and of the bytes read.
Outside == <<serialReadLoop, panicked, lastSet, lastSweep, rx, serialBuffer, wire>>

\* ---------------------------------------------------------------- helpers
MapPut(m, k, v) == [x \in (DOMAIN m) \cup {k} |-> IF x = k THEN v ELSE m[x]]
MapDelete(m, k) == [x \in (DOMAIN m) \ {k} |-> m[x]]
EmptyMap == [x \in {} |-> 0]

\* Nothing has been read from the serial port.
NoReads == [bytes |-> <<>>, frames |-> <<>>, timeouts |-> 0]

\* No sweep has just been made.
NoSweep == [from |-> EmptyMap, to |-> EmptyMap]

RECURSIVE SetToSeq(_)
SetToSeq(S) ==
    IF S = {} THEN <<>>
    ELSE LET x == CHOOSE y \in S : TRUE IN <<x>> \o SetToSeq(S \ {x})

Range(s) == {s[i] : i \in DOMAIN s}
Min(a, b) == IF a < b THEN a ELSE b
Max(a, b) == IF a > b THEN a ELSE b

\* The outcomes a completion channel can deliver.
Bytes(data) == [kind |-> "bytes", data |-> data]
NoResponse == [kind |-> "empty", data |-> <<>>]

\* A slot no Send has used yet.  Besides the fields of PendingRequest a slot
\* keeps its channel (ch, closed) and four histories: what was put on the
\* channel (out), the number of finish calls made on the request (calls),
\* for a waiter the main it was attached to (attachedTo), and what the
\* receives from the channel returned (got).
FreeReq ==
    [pc |-> "free", kind |-> "none", Request |-> <<>>, DataHash |-> offset64,
     ID |-> 0, Timestamp |-> 0, SentAt |-> ZeroTime, done |-> FALSE,
     ch |-> <<>>, closed |-> FALSE, out |-> <<>>, calls |-> 0,
     attachedTo |-> 0, got |-> <<>>]

\* History of head promotions: q is the queue after a step, old the one before.
Promote(old, q) ==
    IF q # <<>> /\ (old = <<>> \/ Head(old) # Head(q))
    THEN Append(promoted, Head(q))
    ELSE promoted

\* ------------------------------------------------------------ RequestCache
\* Get that returns an entry whatever its expireAt.
CacheGetNoExpiry(c, hash) ==
    IF hash \in DOMAIN c
    THEN [found |-> TRUE, data |-> c[hash].data]
    ELSE [found |-> FALSE, data |-> <<>>]

\* Get: found and not time.Now().After(entry.expireAt).
CacheGet(c, hash) ==
    IF hash \in DOMAIN c /\ c[hash].expireAt >= 0
    THEN [found |-> TRUE, data |-> c[hash].data]
    ELSE [found |-> FALSE, data |-> <<>>]

\* SetWithTTL that stores nothing.
CacheSetWithTTLNoStore(c, hash, data, ttl) == c

\* SetWithTTL: the entry replaces any older one and expires ttl from now.
CacheSetWithTTL(c, hash, data, ttl) ==
    MapPut(c, hash, [data |-> data, expireAt |-> ttl])

CacheSet(c, hash, data) == CacheSetWithTTL(c, hash, data, defaultCacheTTL)

\* A sweep that also deletes the entries that expire at this instant.
CacheCleanupExpiredAtExpiry(c) ==
    [h \in {x \in DOMAIN c : c[x].expireAt > 0} |-> c[h]]

\* CleanupExpired: delete every entry with now.After(entry.expireAt).
CacheCleanupExpired(c) ==
    [h \in {x \in DOMAIN c : ~(c[x].expireAt < 0)} |-> c[h]]

\* --------------------------------------------------------- PendingRequest
\* finishWithResponse that sends the data and forgets close(r.ResponseCh).
finishWithResponseNoClose(rs, r, data) ==
    IF rs[r].done THEN [rs EXCEPT ![r].calls = @ + 1]
    ELSE [rs EXCEPT ![r].done = TRUE,
                    ![r].calls = @ + 1,
                    ![r].Timestamp = 0,
                    ![r].SentAt = ZeroTime,
                    ![r].ch = Append(@, data),
                    ![r].out = Append(@, Bytes(data))]

\* finishWithResponse: the first caller sends data and closes the channel.
\* (A finished request has left the engine and nothing reads its times
\* again; the model drops them.)
finishWithResponse(rs, r, data) ==
    IF rs[r].done THEN [rs EXCEPT ![r].calls = @ + 1]
    ELSE [rs EXCEPT ![r].done = TRUE,
                    ![r].calls = @ + 1,
                    ![r].Timestamp = 0,
                    ![r].SentAt = ZeroTime,
                    ![r].ch = Append(@, data),
                    ![r].closed = TRUE,
                    ![r].out = Append(@, Bytes(data))]

\* finishNoResponse that sets done and forgets close(p.ResponseCh).
finishNoResponseNoClose(rs, r) ==
    IF rs[r].done THEN [rs EXCEPT ![r].calls = @ + 1]
    ELSE [rs EXCEPT ![r].done = TRUE,
                    ![r].calls = @ + 1,
                    ![r].Timestamp = 0,
                    ![r].SentAt = ZeroTime]

\* finishNoResponse without the done.Swap(true) test.
finishNoResponseUnguarded(rs, r) ==
    [rs EXCEPT ![r].done = TRUE,
               ![r].calls = @ + 1,
               ![r].Timestamp = 0,
               ![r].SentAt = ZeroTime,
               ![r].closed = TRUE,
               ![r].out = Append(@, NoResponse)]

\* finishNoResponse: the first caller closes the channel without data.
finishNoResponse(rs, r) ==
    IF rs[r].done THEN [rs EXCEPT ![r].calls = @ + 1]
    ELSE [rs EXCEPT ![r].done = TRUE,
                    ![r].calls = @ + 1,
                    ![r].Timestamp = 0,
                    ![r].SentAt = ZeroTime,
                    ![r].closed = TRUE,
                    ![r].out = Append(@, NoResponse)]

\* for _, w := range list { w.finishNoResponse() }
RECURSIVE finishAllNoResponse(_, _)
finishAllNoResponse(rs, list) ==
    IF list = <<>> THEN rs
    ELSE finishAllNoResponse(finishNoResponse(rs, Head(list)), Tail(list))

\* The waiters of a flushed head closed without the response.
finishAllDropped(rs, list, data) == finishAllNoResponse(rs, list)

\* for _, w := range list { w.finishWithResponse(data) }
RECURSIVE finishAllWithResponse(_, _, _)
finishAllWithResponse(rs, list, data) ==
    IF list = <<>> THEN rs
    ELSE finishAllWithResponse(finishWithResponse(rs, Head(list), data),
                               Tail(list), data)

\* ------------------------------------------------------------------- Init
Init ==
    /\ reqs = [r \in Reqs |-> FreeReq]
    /\ pending = <<>>
    /\ inflight = EmptyMap
    /\ waiting = EmptyMap
    /\ cache = EmptyMap
    /\ nextReqID = 0
    /\ respBuf = <<>>
    /\ respTimer = "nil"
    /\ flushLoop = [sel |-> 0, recv |-> 0]
    /\ currentReqID = 0
    /\ respState = respStateIdle
    /\ dropUntil = 0
    /\ stopCleanup = FALSE
    /\ stopFlushLoop = FALSE
    /\ stopCalls = 0
    /\ linger = 0
    /\ wStart = [r \in Reqs |-> 0]
    /\ wWriting = [r \in Reqs |-> 0]
    /\ reaper = [pc |-> "ticker", expired |-> <<>>, firstWasExpired |-> FALSE]
    /\ sinceTick = 0
    /\ linkWrites = <<>>
    /\ promoted = <<>>
    /\ mu = "free"
    /\ serialReadLoop = "reading"
    /\ panicked = FALSE
    /\ lastSet = EmptyMap
    /\ lastSweep = NoSweep
    /\ rx = [n |-> 0, key |-> "none"]
    /\ serialBuffer = <<>>
    /\ wire = NoReads

\* ------------------------------------------------------------------- Send
\* The slot the next Send call uses.
NextSlot == CHOOSE r \in Reqs : reqs[r].pc = "free" /\ \A x \in 1..(r - 1) : reqs[x].pc # "free"

\* A cache hit answered with a closed channel that carries nothing.
ResolvedEmpty(p, data) ==
    [FreeReq EXCEPT !.pc = "ret", !.kind = "cache", !.Request = p,
                    !.DataHash = HashOf[p], !.closed = TRUE,
                    !.out = <<NoResponse>>]

\* One of the first n slots is free.
SlotLeft(n) == \E r \in 1..n : reqs[r].pc = "free"

\* The channel Send returns on a cache hit: resolved with the cached bytes.
Resolved(p, data) ==
    [FreeReq EXCEPT !.pc = "ret", !.kind = "cache", !.Request = p,
                    !.DataHash = HashOf[p], !.ch = <<data>>, !.closed = TRUE,
                    !.out = <<Bytes(data)>>]

\* The inflight lookup that never finds the main.
InflightFoundNever(hash) == FALSE

\* _, found := q.inflight[hash]
InflightFound(hash) == hash \in DOMAIN inflight

\* An ID taken from the counter without advancing it.
nextReqIDLoad(n) == n

\* q.nextReqID.Add(1): the counter advanced by one, which is also the new ID.
nextReqIDAdd(n) == n + 1

\* Send from the inflight lookup on, under q.mu: the call in slot r becomes
\* a waiter of the queued main of its fingerprint, or a main of its own at
\* the tail of the queue, written at once if it is alone there.
SendEnqueue(r, p) ==
    LET hash == HashOf[p]
        new == [FreeReq EXCEPT !.pc = "ret", !.Request = p,
                               !.DataHash = hash, !.Timestamp = 0]
    IN  IF InflightFound(hash)
        THEN /\ reqs' = [reqs EXCEPT ![r] =
                           [new EXCEPT !.kind = "waiter",
                                       !.attachedTo = inflight[hash]]]
             /\ waiting' = MapPut(waiting, hash,
                     Append(IF hash \in DOMAIN waiting THEN waiting[hash]
                            ELSE <<>>, r))
             /\ UNCHANGED <<pending, inflight, nextReqID, wStart, promoted>>
        ELSE /\ nextReqID' = nextReqIDAdd(nextReqID)
             /\ reqs' = [reqs EXCEPT ![r] =
                           [new EXCEPT !.kind = "main",
                                       !.ID = nextReqIDAdd(nextReqID)]]
             /\ inflight' = MapPut(inflight, hash, r)
             /\ pending' = Append(pending, r)
             /\ wStart' = IF Len(pending') = 1
                          THEN [wStart EXCEPT ![r] = @ + 1]
                          ELSE wStart
             /\ promoted' = Promote(pending, pending')
             /\ UNCHANGED waiting

\* Send under q.mu without the second cache lookup.
SendUnderLockNoRecheck(r, p) == SendEnqueue(r, p)

\* Send under q.mu: the cache is looked up again, and only a second miss
\* goes on to the inflight lookup.
SendUnderLock(r, p) ==
    LET second == CacheGet(cache, HashOf[p])
    IN  IF second.found
        THEN /\ reqs' = [reqs EXCEPT ![r] = Resolved(p, second.data)]
             /\ UNCHANGED <<pending, inflight, waiting, nextReqID, wStart,
                            promoted>>
        ELSE SendEnqueue(r, p)

\* Send that is not delayed before q.mu.Lock(): the lookup before the lock
\* and the one after it see the same cache.
Send(p) ==
    /\ CacheGet(cache, HashOf[p]).found \/ mu = "free"
    /\ SlotLeft(MaxReq)
    /\ LET r == NextSlot
           first == CacheGet(cache, HashOf[p])
       IN  IF first.found
           THEN /\ reqs' = [reqs EXCEPT ![r] = Resolved(p, first.data)]
                /\ UNCHANGED <<pending, inflight, waiting, nextReqID, wStart,
                               promoted>>
           ELSE SendUnderLock(r, p)
    /\ UNCHANGED <<cache, respBuf, respTimer, flushLoop, currentReqID,
                   respState, dropUntil, stopCleanup, stopFlushLoop, stopCalls, linger,
                   wWriting, reaper, sinceTick, linkWrites>>
    /\ UNCHANGED <<mu, Outside>>

\* Send that is delayed before q.mu.Lock(): the first lookup has missed and
\* the call, in its slot, has yet to get the lock.
SendMiss(p) ==
    /\ SlotLeft(MaxReq)
    /\ ~CacheGet(cache, HashOf[p]).found
    /\ reqs' = [reqs EXCEPT ![NextSlot] =
                  [FreeReq EXCEPT !.pc = "lock", !.Request = p,
                                  !.DataHash = HashOf[p]]]
    /\ UNCHANGED <<pending, inflight, waiting, nextReqID, wStart, promoted>>
    /\ UNCHANGED <<cache, respBuf, respTimer, flushLoop, currentReqID,
                   respState, dropUntil, stopCleanup, stopFlushLoop, stopCalls, linger,
                   wWriting, reaper, sinceTick, linkWrites>>
    /\ UNCHANGED <<mu, Outside>>

\* The delayed Send of slot r gets q.mu and runs to its return.
SendLocked(r) ==
    /\ mu = "free"
    /\ reqs[r].pc = "lock"
    /\ SendUnderLock(r, reqs[r].Request)
    /\ UNCHANGED <<cache, respBuf, respTimer, flushLoop, currentReqID,
                   respState, dropUntil, stopCleanup, stopFlushLoop, stopCalls, linger,
                   wWriting, reaper, sinceTick, linkWrites>>
    /\ UNCHANGED <<mu, Outside>>

\* ----------------------------------------------------------- sendToSerial
\* The gate without its head test.
GateOpenAnyRequest(r) == respState = respStateIdle

\* The gate without its state test.
GateOpenAnyState(r) == pending # <<>> /\ Head(pending) = r

\* The head-and-idle gate of step 1.
GateOpen(r) ==
    /\ pending # <<>>
    /\ Head(pending) = r
    /\ respState = respStateIdle

\* serial.Write entered with q.mu still held by the goroutine.
MuHeldInWrite(r) == "sendToSerial"

\* q.mu while the goroutine of r is inside serial.Write: step 1 ends with
\* q.mu.Unlock() before step 2 writes.
MuInWrite(r) == "free"

\* Step 1: behind the gate the goroutine enters serial.Write with the lock
\* released.
WriterGate(r) ==
    /\ mu = "free"
    /\ wStart[r] > 0
    /\ wStart' = [wStart EXCEPT ![r] = @ - 1]
    /\ IF ~GateOpen(r)
       THEN UNCHANGED <<respState, wWriting, linkWrites, mu>>
       ELSE /\ respState' = respStateSending
            /\ mu' = MuInWrite(r)
            /\ wWriting' = [wWriting EXCEPT ![r] = @ + 1]
            /\ linkWrites' = Append(linkWrites, r)
    /\ UNCHANGED <<reqs, pending, inflight, waiting, cache, nextReqID, respBuf,
                   respTimer, flushLoop, currentReqID, dropUntil, stopCleanup,
                   stopFlushLoop, stopCalls, linger, reaper, sinceTick, promoted>>
    /\ UNCHANGED Outside

\* The waiters of a fingerprint.
WaitingList(hash) == IF hash \in DOMAIN waiting THEN waiting[hash] ELSE <<>>

\* Step 3 with err # nil that leaves respState as step 1 set it.
WriteFailedNoReset(r) ==
    LET hash == reqs[r].DataHash
        waitingList == IF hash \in DOMAIN waiting THEN waiting[hash] ELSE <<>>
        rest == Tail(pending)
    IN  /\ pending' = rest
        /\ inflight' = MapDelete(inflight, hash)
        /\ waiting' = MapDelete(waiting, hash)
        /\ currentReqID' = 0
        /\ dropUntil' = dropWindow
        /\ reqs' = finishAllNoResponse(finishNoResponse(reqs, r), waitingList)
        /\ wStart' = IF rest # <<>> THEN [wStart EXCEPT ![Head(rest)] = @ + 1]
                     ELSE wStart
        /\ promoted' = Promote(pending, rest)
        /\ UNCHANGED respState

\* Step 3 with err # nil that leaves the head in the inflight map.
WriteFailedKeepsInflight(r) ==
    LET hash == reqs[r].DataHash
        waitingList == WaitingList(hash)
        rest == Tail(pending)
    IN  /\ pending' = rest
        /\ waiting' = MapDelete(waiting, hash)
        /\ currentReqID' = 0
        /\ respState' = respStateIdle
        /\ dropUntil' = dropWindow
        /\ reqs' = finishAllNoResponse(finishNoResponse(reqs, r), waitingList)
        /\ wStart' = IF rest # <<>> THEN [wStart EXCEPT ![Head(rest)] = @ + 1]
                     ELSE wStart
        /\ promoted' = Promote(pending, rest)
        /\ UNCHANGED inflight

\* Step 3 with err # nil that leaves the waiter list of the head in the map.
WriteFailedKeepsWaiters(r) ==
    LET hash == reqs[r].DataHash
        waitingList == WaitingList(hash)
        rest == Tail(pending)
    IN  /\ pending' = rest
        /\ inflight' = MapDelete(inflight, hash)
        /\ currentReqID' = 0
        /\ respState' = respStateIdle
        /\ dropUntil' = dropWindow
        /\ reqs' = finishAllNoResponse(finishNoResponse(reqs, r), waitingList)
        /\ wStart' = IF rest # <<>> THEN [wStart EXCEPT ![Head(rest)] = @ + 1]
                     ELSE wStart
        /\ promoted' = Promote(pending, rest)
        /\ UNCHANGED waiting

\* Step 3 with err # nil: drop the head and its waiters, open the drop
\* window, finish them without response and start the next head.
WriteFailed(r) ==
    LET hash == reqs[r].DataHash
        waitingList == WaitingList(hash)
        rest == Tail(pending)
    IN  /\ pending' = rest
        /\ inflight' = MapDelete(inflight, hash)
        /\ waiting' = MapDelete(waiting, hash)
        /\ currentReqID' = 0
        /\ respState' = respStateIdle
        /\ dropUntil' = dropWindow
        /\ reqs' = finishAllNoResponse(finishNoResponse(reqs, r), waitingList)
        /\ wStart' = IF rest # <<>> THEN [wStart EXCEPT ![Head(rest)] = @ + 1]
                     ELSE wStart
        /\ promoted' = Promote(pending, rest)

\* Step 3 with err = nil that leaves respState as step 1 set it.
WriteSucceededStillSending(r) ==
    /\ reqs' = [reqs EXCEPT ![r].SentAt = 0]
    /\ currentReqID' = reqs[r].ID
    /\ UNCHANGED <<pending, inflight, waiting, respState, dropUntil, wStart,
                   promoted>>

\* Step 3 with err = nil that forgets q.currentReqID.
WriteSucceededNoID(r) ==
    /\ reqs' = [reqs EXCEPT ![r].SentAt = 0]
    /\ respState' = respStateWaiting
    /\ UNCHANGED <<pending, inflight, waiting, currentReqID, dropUntil, wStart,
                   promoted>>

\* Step 3 with err = nil: SentAt, currentReqID and the waiting state.
WriteSucceeded(r) ==
    /\ reqs' = [reqs EXCEPT ![r].SentAt = 0]
    /\ currentReqID' = reqs[r].ID
    /\ respState' = respStateWaiting
    /\ UNCHANGED <<pending, inflight, waiting, dropUntil, wStart, promoted>>

\* A re-verification that compares the payloads instead of the requests.
StillHeadByPayload(r) ==
    pending # <<>> /\ reqs[Head(pending)].Request = reqs[r].Request

\* Step 3's re-verification: the queue is not empty and q.pending[0] == req.
StillHead(r) == pending # <<>> /\ Head(pending) = r

\* serial.Write returns (err tells whether it failed) and step 3 runs.
WriterReturn(r, err) ==
    /\ mu = "free"
    /\ wWriting[r] > 0
    /\ wWriting' = [wWriting EXCEPT ![r] = @ - 1]
    /\ IF ~StillHead(r)
       THEN UNCHANGED <<reqs, pending, inflight, waiting, currentReqID,
                        respState, dropUntil, wStart, promoted>>
       ELSE IF err THEN WriteFailed(r) ELSE WriteSucceeded(r)
    /\ UNCHANGED <<cache, nextReqID, respBuf, respTimer, flushLoop, stopCleanup,
                   stopFlushLoop, stopCalls, linger, reaper, sinceTick, linkWrites>>
    /\ UNCHANGED <<mu, Outside>>

\* ----------------------------------------------------------- OnSerialData
\* OnSerialData that takes a frame for any head once a write has begun.
FrameAcceptedWhileSending == respState # respStateIdle /\ pending # <<>>

\* OnSerialData that takes a frame for any head, written or not.
FrameAcceptedUnsent == pending # <<>>

\* Whether OnSerialData accepts a frame: waiting state, a head that is the
\* current request and has been sent.  (The state is loaded before q.mu is
\* taken; currentReqID is 0 outside the waiting state and every ID is >= 1,
\* so the checks under the lock decide alone.)
FrameAccepted ==
    /\ respState = respStateWaiting
    /\ pending # <<>>
    /\ reqs[Head(pending)].ID = currentReqID
    /\ reqs[Head(pending)].SentAt # ZeroTime

\* The key OnSerialData passes to logIssuefThrottled when it drops a frame
\* ("none": the frame is taken).
RxAnomaly ==
    IF respState # respStateWaiting THEN "drop_state"
    ELSE IF pending = <<>> THEN "drop_no_pending"
    ELSE IF reqs[Head(pending)].ID # currentReqID
         THEN IF dropUntil > 0 THEN "drop_until" ELSE "drop_id_mismatch"
    ELSE IF reqs[Head(pending)].SentAt = ZeroTime THEN "drop_unsent"
    ELSE "none"

\* A frame from the serial read loop: dropped, or appended to respBuf with
\* the flush timer (re)started; the first timer starts flushResponseLoop.
OnSerialDataCall(data) ==
    /\ serialReadLoop # "returned"
    /\ respState # respStateWaiting \/ mu = "free"
    /\ IF ~FrameAccepted
       THEN UNCHANGED <<respBuf, respTimer, flushLoop>>
       ELSE /\ Len(respBuf) + Len(data) <= MaxBuf
            /\ respBuf' = respBuf \o data
            /\ respTimer' = "armed"
            /\ flushLoop' = IF respTimer = "nil"
                            THEN [flushLoop EXCEPT !.sel = @ + 1]
                            ELSE flushLoop
    /\ UNCHANGED <<reqs, pending, inflight, waiting, cache, nextReqID,
                   currentReqID, respState, dropUntil, stopCleanup,
                   stopFlushLoop, stopCalls, linger, wStart, wWriting, reaper, sinceTick,
                   linkWrites, promoted>>
    /\ UNCHANGED <<mu, serialReadLoop, panicked, lastSet, lastSweep>>

OnSerialData(data) ==
    OnSerialDataCall(data) /\ UNCHANGED <<rx, serialBuffer, wire>>

\* The same call with its outcome recorded in rx.
OnSerialDataObserved(data) ==
    /\ rx.n < MaxRx
    /\ OnSerialDataCall(data)
    /\ rx' = [n |-> rx.n + 1, key |-> RxAnomaly]
    /\ UNCHANGED <<serialBuffer, wire>>

\* l.serial.Read returns an error that is neither a timeout nor EOF: on a
\* closed port (isClosedError) the loop returns, on any other error it logs
\* the error and reads again.  The write queue is not touched.
SerialReadError(closed) ==
    /\ serialReadLoop # "returned"
    /\ serialReadLoop' = IF closed THEN "returned" ELSE "failed"
    /\ UNCHANGED <<reqs, pending, inflight, waiting, cache, nextReqID, respBuf,
                   respTimer, flushLoop, currentReqID, respState, dropUntil,
                   stopCleanup, stopFlushLoop, stopCalls, linger, wStart,
                   wWriting, reaper, sinceTick, linkWrites, promoted, mu,
                   panicked, lastSet, lastSweep, rx, serialBuffer, wire>>

\* l.serial.Read returns n > 0 bytes and no error: they are appended to the
\* accumulator.  (The k-th byte read is written k, so that every byte can be
\* followed.)
SerialRead(n) ==
    /\ serialReadLoop # "returned"
    /\ Len(wire.bytes) + n <= MaxRead
    /\ LET data == [i \in 1..n |-> Len(wire.bytes) + i]
       IN  /\ serialBuffer' = serialBuffer \o data
           /\ wire' = [wire EXCEPT !.bytes = @ \o data]
    /\ UNCHANGED <<reqs, pending, inflight, waiting, cache, nextReqID, respBuf,
                   respTimer, flushLoop, currentReqID, respState, dropUntil,
                   stopCleanup, stopFlushLoop, stopCalls, linger, wStart,
                   wWriting, reaper, sinceTick, linkWrites, promoted, mu,
                   serialReadLoop, panicked, lastSet, lastSweep, rx>>

\* A read timeout that hands the accumulator on and keeps it.
SerialReadTimeoutKeepsBuffer ==
    /\ serialReadLoop # "returned"
    /\ wire.timeouts < MaxGap
    /\ IF serialBuffer # <<>>
       THEN /\ OnSerialDataCall(serialBuffer)
            /\ wire' = [wire EXCEPT !.frames = Append(@, serialBuffer),
                                    !.timeouts = @ + 1]
       ELSE /\ wire' = [wire EXCEPT !.timeouts = @ + 1]
            /\ UNCHANGED <<reqs, pending, inflight, waiting, cache, nextReqID,
                           respBuf, respTimer, flushLoop, currentReqID,
                           respState, dropUntil, stopCleanup, stopFlushLoop,
                           stopCalls, linger, wStart, wWriting, reaper,
                           sinceTick, linkWrites, promoted, mu,
                           serialReadLoop, panicked, lastSet, lastSweep>>
    /\ UNCHANGED <<serialBuffer, rx>>

\* l.serial.Read returns a timeout (or io.EOF): a non-empty accumulator is
\* copied into a frame, handed to OnSerialData and cleared.
SerialReadTimeout ==
    /\ serialReadLoop # "returned"
    /\ wire.timeouts < MaxGap
    /\ IF serialBuffer # <<>>
       THEN /\ OnSerialDataCall(serialBuffer)
            /\ serialBuffer' = <<>>
            /\ wire' = [wire EXCEPT !.frames = Append(@, serialBuffer),
                                    !.timeouts = @ + 1]
       ELSE /\ wire' = [wire EXCEPT !.timeouts = @ + 1]
            /\ UNCHANGED <<reqs, pending, inflight, waiting, cache, nextReqID,
                           respBuf, respTimer, flushLoop, currentReqID,
                           respState, dropUntil, stopCleanup, stopFlushLoop,
                           stopCalls, linger, wStart, wWriting, reaper,
                           sinceTick, linkWrites, promoted, mu,
                           serialReadLoop, panicked, lastSet, lastSweep,
                           serialBuffer>>
    /\ UNCHANGED rx

\* ------------------------------------------------------ flushResponseLoop
\* A TTL of RTT * 2 without the two limits.
CacheTTLNoClamp(rtt) == rtt * 2

\* Cache TTL of a response: RTT * 2, at least 1 s, at most 30 s.
CacheTTL(rtt) ==
    LET r == IF rtt < 0 THEN 0 ELSE rtt
        t == r * 2
    IN  IF t < cacheTTLMin THEN cacheTTLMin
        ELSE IF t > cacheTTLMax THEN cacheTTLMax
        ELSE t

\* flushResponseLocked past its guard: cache the response, remove the head
\* and its waiters, go idle, finish them with the response (after the
\* unlock) and start the next head.
flushResponseLocked ==
    LET req == Head(pending)
        \* rtt = time.Now().Sub(sendTime): the age of SentAt, or of Timestamp
        rtt == IF reqs[req].SentAt = ZeroTime THEN reqs[req].Timestamp
               ELSE reqs[req].SentAt
        hash == reqs[req].DataHash
        waitingList == WaitingList(hash)
        rest == Tail(pending)
    IN  /\ cache' = CacheSetWithTTL(cache, hash, respBuf, CacheTTL(rtt))
        /\ waiting' = MapDelete(waiting, hash)
        /\ inflight' = MapDelete(inflight, hash)
        /\ pending' = rest
        /\ currentReqID' = 0
        /\ respState' = respStateIdle
        /\ respBuf' = <<>>
        /\ reqs' = finishAllWithResponse(finishWithResponse(reqs, req, respBuf),
                                         waitingList, respBuf)
        /\ wStart' = IF rest # <<>> THEN [wStart EXCEPT ![Head(rest)] = @ + 1]
                     ELSE wStart
        /\ promoted' = Promote(pending, rest)

\* The loop's select receives the timer's value.
FlushLoopRecv ==
    /\ mu = "free"
    /\ flushLoop.sel > 0
    /\ respTimer = "fired"
    /\ respTimer' = "idle"
    /\ flushLoop' = [sel |-> flushLoop.sel - 1, recv |-> flushLoop.recv + 1]
    /\ UNCHANGED <<reqs, pending, inflight, waiting, cache, nextReqID, respBuf,
                   currentReqID, respState, dropUntil, stopCleanup,
                   stopFlushLoop, stopCalls, linger, wStart, wWriting, reaper, sinceTick,
                   linkWrites, promoted>>
    /\ UNCHANGED <<mu, Outside>>

\* Timer fired: under the lock, flush if there is a head and data, else
\* clear the buffer; then select again.
FlushLoopFired ==
    /\ mu = "free"
    /\ flushLoop.recv > 0
    /\ flushLoop' = [sel |-> flushLoop.sel + 1, recv |-> flushLoop.recv - 1]
    /\ IF pending # <<>> /\ respBuf # <<>>
       THEN flushResponseLocked
       ELSE /\ respBuf' = <<>>
            /\ UNCHANGED <<reqs, pending, inflight, waiting, cache,
                           currentReqID, respState, wStart, promoted>>
    /\ UNCHANGED <<nextReqID, respTimer, dropUntil, stopCleanup, stopFlushLoop, stopCalls, linger,
                   wWriting, reaper, sinceTick, linkWrites>>
    /\ UNCHANGED <<mu, Outside>>

\* The loop's select takes a closed stop channel and the goroutine returns.
FlushLoopExit ==
    /\ flushLoop.sel > 0
    /\ stopFlushLoop \/ stopCleanup
    /\ flushLoop' = [flushLoop EXCEPT !.sel = @ - 1]
    /\ UNCHANGED <<reqs, pending, inflight, waiting, cache, nextReqID, respBuf,
                   respTimer, currentReqID, respState, dropUntil, stopCleanup,
                   stopFlushLoop, stopCalls, linger, wStart, wWriting, reaper, sinceTick,
                   linkWrites, promoted>>
    /\ UNCHANGED <<mu, Outside>>

\* --------------------------------------------------------- CleanupExpired
\* A reaper that measures every request from its enqueue time.
TimedOutFromEnqueue(rs, r) == ~(rs[r].Timestamp < requestTimeout)

\* A reaper that allows twice the timeout.
TimedOutLate(rs, r) ==
    LET timeoutBase == IF rs[r].SentAt = ZeroTime THEN rs[r].Timestamp
                       ELSE rs[r].SentAt
    IN  ~(timeoutBase < 2 * requestTimeout)

\* now.Sub(timeoutBase) < requestTimeout fails: the base is SentAt if the
\* request was sent, else Timestamp.
TimedOut(rs, r) ==
    LET timeoutBase == IF rs[r].SentAt = ZeroTime THEN rs[r].Timestamp
                       ELSE rs[r].SentAt
    IN  ~(timeoutBase < requestTimeout)

\* The loop over q.pending: st = [active, expired, inflight, waiting].
RECURSIVE ReapPending(_, _)
ReapPending(q, st) ==
    IF q = <<>> THEN st
    ELSE LET req == Head(q)
             hash == reqs[req].DataHash
         IN  IF ~TimedOut(reqs, req)
             THEN ReapPending(Tail(q), [st EXCEPT !.active = Append(@, req)])
             ELSE ReapPending(Tail(q),
                    [active |-> st.active,
                     expired |-> Append(st.expired, req)
                                 \o (IF hash \in DOMAIN st.waiting
                                     THEN st.waiting[hash] ELSE <<>>),
                     inflight |-> MapDelete(st.inflight, hash),
                     waiting |-> MapDelete(st.waiting, hash)])

\* A reaper that does not walk the waiter lists.
ReapWaitingNone(hashes, st) == st

\* The loop over q.waiting (hashes in map order): waiters older than
\* requestTimeout since they were enqueued are expired.
RECURSIVE ReapWaiting(_, _)
ReapWaiting(hashes, st) ==
    IF hashes = <<>> THEN st
    ELSE LET hash == Head(hashes)
             waitingList == st.waiting[hash]
             alive(x) == reqs[x].Timestamp < requestTimeout
             dead(x) == ~alive(x)
             activeWaiting == SelectSeq(waitingList, alive)
         IN  ReapWaiting(Tail(hashes),
                [st EXCEPT !.expired = @ \o SelectSeq(waitingList, dead),
                           !.waiting = IF activeWaiting # <<>>
                                       THEN MapPut(@, hash, activeWaiting)
                                       ELSE MapDelete(@, hash)])

\* A flag that is raised by any expired main of the queue q.
AnyWasExpired(q) == \E r \in Range(q) : TimedOut(reqs, r)

\* firstWasExpired: the request at index 0 of the queue q was expired.
FirstWasExpired(q) == q # <<>> /\ TimedOut(reqs, Head(q))

\* CleanupExpired up to its q.mu.Unlock(): sweep the cache, remove expired
\* mains with their waiters and expired waiters, reset the engine if the
\* head was expired.
CleanupExpiredLocked ==
    LET st1 == ReapPending(pending, [active |-> <<>>, expired |-> <<>>,
                                     inflight |-> inflight, waiting |-> waiting])
        st2 == ReapWaiting(SetToSeq(DOMAIN st1.waiting), st1)
        firstWasExpired == FirstWasExpired(pending)
    IN  /\ cache' = CacheCleanupExpired(cache)
        /\ pending' = st2.active
        /\ inflight' = st2.inflight
        /\ waiting' = st2.waiting
        /\ reaper' = [pc |-> "unlocked", expired |-> st2.expired,
                      firstWasExpired |-> firstWasExpired]
        /\ IF firstWasExpired
           THEN /\ respBuf' = <<>>
                /\ currentReqID' = 0
                /\ respState' = respStateIdle
                /\ dropUntil' = dropWindow
           ELSE UNCHANGED <<respBuf, currentReqID, respState, dropUntil>>
        /\ promoted' = Promote(pending, st2.active)

\* The ticker of StartCleanupTimer fires and CleanupExpired runs its
\* locked part.
ReaperTick ==
    /\ mu = "free"
    /\ reaper.pc = "ticker"
    /\ sinceTick = reapTick
    /\ sinceTick' = 0
    /\ CleanupExpiredLocked
    /\ UNCHANGED <<reqs, nextReqID, respTimer, flushLoop, stopCleanup,
                   stopFlushLoop, stopCalls, linger, wStart, wWriting, linkWrites>>
    /\ UNCHANGED <<mu, Outside>>

\* CleanupExpired after its unlock without the go q.sendToSerial(nextReq).
ReaperFinishNoSend ==
    /\ mu = "free"
    /\ reaper.pc = "unlocked"
    /\ reqs' = finishAllNoResponse(reqs, reaper.expired)
    /\ reaper' = [pc |-> "ticker", expired |-> <<>>, firstWasExpired |-> FALSE]
    /\ UNCHANGED <<pending, inflight, waiting, cache, nextReqID, respBuf,
                   respTimer, flushLoop, currentReqID, respState, dropUntil,
                   stopCleanup, stopFlushLoop, stopCalls, linger, wStart,
                   wWriting, sinceTick, linkWrites, promoted>>
    /\ UNCHANGED <<mu, Outside>>

\* CleanupExpired after its unlock: finish the expired requests, take the
\* lock again and start the new head if the old one was expired.
ReaperFinish ==
    /\ mu = "free"
    /\ reaper.pc = "unlocked"
    /\ reqs' = finishAllNoResponse(reqs, reaper.expired)
    /\ wStart' = IF reaper.firstWasExpired /\ pending # <<>>
                 THEN [wStart EXCEPT ![Head(pending)] = @ + 1]
                 ELSE wStart
    /\ reaper' = [pc |-> "ticker", expired |-> <<>>, firstWasExpired |-> FALSE]
    /\ UNCHANGED <<pending, inflight, waiting, cache, nextReqID, respBuf,
                   respTimer, flushLoop, currentReqID, respState, dropUntil,
                   stopCleanup, stopFlushLoop, stopCalls, linger, wWriting, sinceTick, linkWrites,
                   promoted>>
    /\ UNCHANGED <<mu, Outside>>

\* The cleanup goroutine takes the closed stopCleanup channel and returns.
ReaperExit ==
    /\ reaper.pc = "ticker"
    /\ stopCleanup
    /\ reaper' = [reaper EXCEPT !.pc = "exited"]
    /\ UNCHANGED <<reqs, pending, inflight, waiting, cache, nextReqID, respBuf,
                   respTimer, flushLoop, currentReqID, respState, dropUntil,
                   stopCleanup, stopFlushLoop, stopCalls, linger, wStart, wWriting, sinceTick,
                   linkWrites, promoted>>
    /\ UNCHANGED <<mu, Outside>>

\* ------------------------------------------------------- StopCleanupTimer
\* Do that runs its function on every call.
OnceDoEveryCall(done) == TRUE

\* sync.Once.Do: the function runs unless an earlier call has run it.
OnceDo(done) == ~done

\* Both channels are closed under their Once (a close of a closed channel
\* panics), then timer and buffer are cleared under q.mu.
StopCleanupTimer ==
    /\ mu = "free"
    /\ stopCalls' = stopCalls + 1
    /\ panicked' = (\/ panicked
                    \/ OnceDo(stopCleanup) /\ stopCleanup
                    \/ OnceDo(stopFlushLoop) /\ stopFlushLoop)
    /\ stopCleanup' = TRUE
    /\ stopFlushLoop' = TRUE
    /\ respTimer' = "nil"
    /\ respBuf' = <<>>
    /\ UNCHANGED <<reqs, pending, inflight, waiting, cache, nextReqID, linger,
                   flushLoop, currentReqID, respState, dropUntil, wStart,
                   wWriting, reaper, sinceTick, linkWrites, promoted>>
    /\ UNCHANGED <<mu, serialReadLoop, lastSet, lastSweep, rx, serialBuffer, wire>>

\* ------------------------------------------------------------------ clock
\* Time since the last tick (the ticker is gone once the goroutine exited).
Phase == IF sinceTick = reapTick THEN 0 ELSE sinceTick

\* The clock moves by one flush timeout (at most sub times per tick
\* period) or to the next tick.
TimeSteps(sub) ==
    {reapTick - Phase}
    \cup (IF Phase < sub * respFlushTimeout THEN {respFlushTimeout} ELSE {})

Older(t, d) == IF t = ZeroTime THEN ZeroTime ELSE Min(t + d, AgeCap)

\* d ms pass.  A due tick is served first and the reaper finishes what it
\* expired within the instant; every other goroutine may take any time.
AdvanceTime(d) ==
    /\ reaper.pc # "unlocked"
    /\ reaper.pc = "ticker" => sinceTick < reapTick
    /\ reaper.pc = "exited" => linger < MaxLinger
    /\ linger' = IF reaper.pc = "exited" THEN linger + 1 ELSE linger
    /\ sinceTick' = Phase + d
    /\ reqs' = [r \in Reqs |->
                  IF reqs[r].pc = "ret" /\ reqs[r].kind # "cache" /\ ~reqs[r].done
                  THEN [reqs[r] EXCEPT !.Timestamp = Older(@, d),
                                       !.SentAt = Older(@, d)]
                  ELSE reqs[r]]
    /\ cache' = [h \in DOMAIN cache |->
                    [cache[h] EXCEPT !.expireAt = Max(@ - d, -1)]]
    /\ dropUntil' = Max(dropUntil - d, 0)
    /\ respTimer' = IF respTimer = "armed" THEN "fired" ELSE respTimer
    /\ UNCHANGED <<pending, inflight, waiting, nextReqID, respBuf, flushLoop,
                   currentReqID, respState, stopCleanup, stopFlushLoop, stopCalls, wStart,
                   wWriting, reaper, linkWrites, promoted>>
    /\ UNCHANGED <<mu, Outside>>

\* ------------------------------------------------------------------- spec
\* The engine while it runs, with n Send calls and sub clock steps of
\* respFlushTimeout per tick period.
Engine(n, sub) ==
    \/ \E p \in Payloads : SlotLeft(n) /\ Send(p)
    \/ \E r \in Reqs : WriterGate(r)
    \/ \E r \in Reqs, err \in BOOLEAN : WriterReturn(r, err)
    \/ \E data \in Frames : OnSerialData(data)
    \/ FlushLoopRecv
    \/ FlushLoopFired
    \/ ReaperTick
    \/ ReaperFinish
    \/ \E d \in TimeSteps(sub) : AdvanceTime(d)

\* The shutdown, with n calls of StopCleanupTimer.
Shutdown(n) ==
    \/ stopCalls < n /\ StopCleanupTimer
    \/ ReaperExit
    \/ FlushLoopExit

Next == Engine(MaxReq, 0)
Spec == Init /\ [][Next]_vars

NextFine == Engine(MaxReqFine, MaxSub)
SpecFine == Init /\ [][NextFine]_vars

NextStop == NextFine \/ Shutdown(MaxStop)
SpecStop == Init /\ [][NextStop]_vars

\* Repeated shutdown of an engine in use.  What the Go runtime guarantees
\* besides the scheduling of LiveSpec: a select picks among its ready cases
\* at random, so a closed stop channel that is offered again and again is
\* taken; and a flushResponseLoop past its timer receive runs on.
NextStopAgain == Engine(MaxReqAgain, 0) \/ Shutdown(MaxStopAgain)
SpecStopAgain ==
    /\ Init /\ [][NextStopAgain]_vars
    /\ WF_vars(ReaperFinish)
    /\ WF_vars(FlushLoopFired)
    /\ SF_vars(ReaperExit)
    /\ SF_vars(FlushLoopExit)

\* The engine with a serial port whose reads can fail.
NextRead == NextFine \/ \E closed \in BOOLEAN : SerialReadError(closed)
SpecRead == Init /\ [][NextRead]_vars

\* The engine with Send calls that are delayed between their first cache
\* lookup and q.mu.Lock().
NextRace ==
    \/ NextFine
    \/ \E p \in Payloads : SlotLeft(MaxReqFine) /\ SendMiss(p)
    \/ \E r \in Reqs : SendLocked(r)
SpecRace == Init /\ [][NextRace]_vars

\* The read loop of the Listener in front of the engine: the frames come
\* from the accumulator, the engine serves MaxReqAgain requests.
NextFrame ==
    \/ \E n \in 1..MaxChunk : SerialRead(n)
    \/ SerialReadTimeout
    \/ \E closed \in BOOLEAN : SerialReadError(closed)
    \/ \E p \in Payloads : SlotLeft(MaxReqAgain) /\ Send(p)
    \/ \E r \in Reqs : WriterGate(r)
    \/ \E r \in Reqs, err \in BOOLEAN : WriterReturn(r, err)
    \/ FlushLoopRecv
    \/ FlushLoopFired
    \/ ReaperTick
    \/ ReaperFinish
    \/ \E d \in TimeSteps(0) : AdvanceTime(d)
SpecFrame == Init /\ [][NextFrame]_vars

\* The engine with the frames handed to it recorded.
NextRx == NextFine \/ \E data \in Frames : OnSerialDataObserved(data)
SpecRx == Init /\ [][NextRx]_vars

\* The running engine as the Go runtime schedules it: the clock moves on,
\* the ticker delivers its ticks to the cleanup goroutine, CleanupExpired
\* runs to its end, and a serial.Write that was entered returns.
Tick == \E d \in TimeSteps(MaxSub) : AdvanceTime(d)
WriteReturns == \E r \in Reqs, err \in BOOLEAN : WriterReturn(r, err)

LiveSpec ==
    /\ SpecFine
    /\ WF_vars(Tick)
    /\ WF_vars(ReaperTick)
    /\ WF_vars(ReaperFinish)
    /\ WF_vars(WriteReturns)

\* The same engine with its goroutines scheduled: a sendToSerial goroutine
\* that was started runs (q.mu is a sync.Mutex, whose waiters get the lock).
LiveSpecWriter ==
    /\ LiveSpec
    /\ \A r \in Reqs : WF_vars(WriterGate(r))

\* ------------------------------------------- completion sink, free callers
\* The PendingRequest objects alone: requests that exist and are held by
\* the frame flush, the reaper and the write-failure path at once, each of
\* which calls its finish method on any of them at any time and in any
\* order.  This covers every interleaving of the three paths, also those
\* the queue's own bookkeeping rules out.
Accepted(p, kind) ==
    [FreeReq EXCEPT !.pc = "ret", !.kind = kind, !.Request = p,
                    !.DataHash = HashOf[p]]

\* The responses a flush can deliver.
Responses == UNION {[1..n -> {f[1] : f \in Frames}] : n \in 1..MaxBuf}

\* The requests the callers hold.
Held == 1..MaxReqFine

InitFinish ==
    /\ \E held \in [Held -> {Accepted(p, k) : p \in Payloads,
                                                k \in {"main", "waiter"}}] :
            reqs = [r \in Reqs |-> IF r \in Held THEN held[r] ELSE FreeReq]
    /\ pending = <<>>
    /\ inflight = EmptyMap
    /\ waiting = EmptyMap
    /\ cache = EmptyMap
    /\ nextReqID = 0
    /\ respBuf = <<>>
    /\ respTimer = "nil"
    /\ flushLoop = [sel |-> 0, recv |-> 0]
    /\ currentReqID = 0
    /\ respState = respStateIdle
    /\ dropUntil = 0
    /\ stopCleanup = FALSE
    /\ stopFlushLoop = FALSE
    /\ stopCalls = 0
    /\ linger = 0
    /\ wStart = [r \in Reqs |-> 0]
    /\ wWriting = [r \in Reqs |-> 0]
    /\ reaper = [pc |-> "ticker", expired |-> <<>>, firstWasExpired |-> FALSE]
    /\ sinceTick = 0
    /\ linkWrites = <<>>
    /\ promoted = <<>>
    /\ mu = "free"
    /\ serialReadLoop = "reading"
    /\ panicked = FALSE
    /\ lastSet = EmptyMap
    /\ lastSweep = NoSweep
    /\ rx = [n |-> 0, key |-> "none"]
    /\ serialBuffer = <<>>
    /\ wire = NoReads

EngineVars ==
    <<pending, inflight, waiting, cache, nextReqID, respBuf, respTimer,
      flushLoop, currentReqID, respState, dropUntil, stopCleanup,
      stopFlushLoop, stopCalls, linger, wStart, wWriting, reaper, sinceTick,
      linkWrites, promoted, mu, serialReadLoop, panicked, lastSet,
      lastSweep, rx, serialBuffer, wire>>

\* flushResponseLocked's caller finishes r with a response.
FlushFinishes(r, data) ==
    /\ reqs[r].calls < MaxCalls
    /\ reqs' = finishWithResponse(reqs, r, data)
    /\ UNCHANGED EngineVars

\* CleanupExpired finishes r as timed out.
ReaperFinishes(r) ==
    /\ reqs[r].calls < MaxCalls
    /\ reqs' = finishNoResponse(reqs, r)
    /\ UNCHANGED EngineVars

\* sendToSerial finishes r after a failed write.
WriteFailureFinishes(r) ==
    /\ reqs[r].calls < MaxCalls
    /\ reqs' = finishNoResponse(reqs, r)
    /\ UNCHANGED EngineVars

NextFinish ==
    \/ \E r \in Held, data \in Responses : FlushFinishes(r, data)
    \/ \E r \in Held : ReaperFinishes(r)
    \/ \E r \in Held : WriteFailureFinishes(r)

SpecFinish == InitFinish /\ [][NextFinish]_vars

\* A receive from r's channel would not block: a value is buffered or the
\* channel is closed.
CanReceive(r) == reqs[r].ch # <<>> \/ reqs[r].closed

\* resp, ok := <-ResponseCh: the buffered value if there is one, else the
\* zero value of a closed channel (nil, ok = false).
Await(r) ==
    /\ reqs[r].pc = "ret"
    /\ Len(reqs[r].got) < MaxAwait
    /\ CanReceive(r)
    /\ reqs' = IF reqs[r].ch # <<>>
               THEN [reqs EXCEPT ![r].got = Append(@, Bytes(Head(reqs[r].ch))),
                                 ![r].ch = Tail(@)]
               ELSE [reqs EXCEPT ![r].got = Append(@, NoResponse)]
    /\ UNCHANGED EngineVars

\* The completion sink with receivers on the channels.
NextAwait == NextFinish \/ \E r \in Held : Await(r)
SpecAwait == InitFinish /\ [][NextAwait]_vars

\* --------------------------------------------- flush after any round trip
\* The round-trip times (ms) a flush is made after: around both limits of
\* the TTL and between them.  (The reaper bounds the round trip of a flush
\* only as far as its goroutine is scheduled in time; flushResponseLocked
\* does not rely on it.)
RTTs ==
    {0, 250, cacheTTLMin \div 2 - 1, cacheTTLMin \div 2, cacheTTLMin \div 2 + 1,
     cacheTTLMin, requestTimeout, 2 * requestTimeout,
     cacheTTLMax \div 2 - 1, cacheTTLMax \div 2, cacheTTLMax \div 2 + 1,
     cacheTTLMax - 1, cacheTTLMax, cacheTTLMax + reapTick}

\* A main of payload p written rtt ms ago.
Written(p, rtt) ==
    [FreeReq EXCEPT !.pc = "ret", !.kind = "main", !.Request = p,
                    !.DataHash = HashOf[p], !.ID = 1, !.Timestamp = rtt,
                    !.SentAt = rtt]

\* The engine waiting for the response of its head, written rtt ms ago,
\* with accumulated bytes and the flush timer fired.  The ages are exact
\* here, also beyond AgeCap: the clock does not move in SpecTTL.
InitTTL ==
    /\ \E p \in Payloads, rtt \in RTTs :
            /\ reqs = [r \in Reqs |-> IF r = 1 THEN Written(p, rtt) ELSE FreeReq]
            /\ inflight = MapPut(EmptyMap, HashOf[p], 1)
    /\ pending = <<1>>
    /\ waiting = EmptyMap
    /\ cache = EmptyMap
    /\ nextReqID = 1
    /\ respBuf \in Responses
    /\ respTimer = "fired"
    /\ flushLoop = [sel |-> 1, recv |-> 0]
    /\ currentReqID = 1
    /\ respState = respStateWaiting
    /\ dropUntil = 0
    /\ stopCleanup = FALSE
    /\ stopFlushLoop = FALSE
    /\ stopCalls = 0
    /\ linger = 0
    /\ wStart = [r \in Reqs |-> 0]
    /\ wWriting = [r \in Reqs |-> 0]
    /\ reaper = [pc |-> "ticker", expired |-> <<>>, firstWasExpired |-> FALSE]
    /\ sinceTick = 0
    /\ linkWrites = <<1>>
    /\ promoted = <<1>>
    /\ mu = "free"
    /\ serialReadLoop = "reading"
    /\ panicked = FALSE
    /\ lastSet = EmptyMap
    /\ lastSweep = NoSweep
    /\ rx = [n |-> 0, key |-> "none"]
    /\ serialBuffer = <<>>
    /\ wire = NoReads

NextTTL == FlushLoopRecv \/ FlushLoopFired
SpecTTL == InitTTL /\ [][NextTTL]_vars

\* ------------------------------------------------- a tick on any queue
\* CleanupExpired on the queues a tick can find: up to MaxReq requests, each
\* a main with a payload of its own or a waiter of an earlier main, enqueued
\* at any of the ages below, the head written (at any of these ages, the
\* engine waiting, with or without accumulated bytes) or not written yet.
\* Ages (ms) around requestTimeout, below the age the tick before this one
\* would have expired.
ReapAges ==
    {0, 2 * reapTick, requestTimeout - 1, requestTimeout, requestTimeout + 1,
     requestTimeout + reapTick - 1}

\* role[r] = 0: r is a main; role[r] = m: r is a waiter attached to main m.
ReapRoles ==
    {role \in [Reqs -> 0..MaxReq] :
        /\ role[1] = 0
        /\ \A r \in Reqs : role[r] # 0 => role[r] < r /\ role[role[r]] = 0}

\* Enqueue ages: Send fills the slots in order, so they do not grow.
ReapTimes ==
    {age \in [Reqs -> ReapAges] : \A r, x \in Reqs : r < x => age[r] >= age[x]}

Slots == [r \in Reqs |-> r]

InitReap ==
    \E role \in ReapRoles, age \in ReapTimes,
       sent \in {ZeroTime} \cup ReapAges, buf \in {<<>>} \cup Responses :
        LET IsMain(r) == role[r] = 0
            mains == {r \in Reqs : IsMain(r)}
            payload(r) == IF IsMain(r) THEN <<r>> ELSE <<role[r]>>
            written == sent # ZeroTime
        IN  /\ sent <= age[1]
            /\ buf # <<>> => written
            /\ reqs = [r \in Reqs |->
                  [FreeReq EXCEPT
                     !.pc = "ret",
                     !.kind = IF IsMain(r) THEN "main" ELSE "waiter",
                     !.Request = payload(r),
                     !.DataHash = hashData(payload(r)),
                     !.ID = IF IsMain(r)
                            THEN Cardinality({m \in mains : m <= r}) ELSE 0,
                     !.Timestamp = age[r],
                     !.SentAt = IF r = 1 THEN sent ELSE ZeroTime,
                     !.attachedTo = role[r]]]
            /\ pending = SelectSeq(Slots, IsMain)
            /\ inflight = [h \in {hashData(<<m>>) : m \in mains} |->
                              CHOOSE m \in mains : hashData(<<m>>) = h]
            /\ waiting =
                  [h \in {hashData(<<role[r]>>) : r \in Reqs \ mains} |->
                      LET OnList(r) == ~IsMain(r) /\ hashData(<<role[r]>>) = h
                      IN  SelectSeq(Slots, OnList)]
            /\ nextReqID = Cardinality(mains)
            /\ respBuf = buf
            /\ respTimer = IF buf # <<>> THEN "armed" ELSE "nil"
            /\ flushLoop = [sel |-> IF buf # <<>> THEN 1 ELSE 0, recv |-> 0]
            /\ currentReqID = IF written THEN 1 ELSE 0
            /\ respState = IF written THEN respStateWaiting ELSE respStateIdle
            /\ wStart = [r \in Reqs |-> IF r = 1 /\ ~written THEN 1 ELSE 0]
            /\ linkWrites = IF written THEN <<1>> ELSE <<>>
            /\ cache = EmptyMap
            /\ dropUntil = 0
            /\ stopCleanup = FALSE
            /\ stopFlushLoop = FALSE
            /\ stopCalls = 0
            /\ linger = 0
            /\ wWriting = [r \in Reqs |-> 0]
            /\ reaper = [pc |-> "ticker", expired |-> <<>>,
                         firstWasExpired |-> FALSE]
            /\ sinceTick = reapTick
            /\ promoted = <<1>>
            /\ mu = "free"
            /\ serialReadLoop = "reading"
            /\ panicked = FALSE
            /\ lastSet = EmptyMap
            /\ lastSweep = NoSweep
            /\ rx = [n |-> 0, key |-> "none"]
            /\ serialBuffer = <<>>
            /\ wire = NoReads

NextReap == ReaperTick \/ ReaperFinish
SpecReap == InitReap /\ [][NextReap]_vars

\* ------------------------------------------- a flush timer that outlives its head
\* The engine at a tick that expires its head, written requestTimeout ago or
\* more and still waiting, with bytes accumulated for it and the flush timer
\* fired: its value is in the timer's channel, or a flushResponseLoop has
\* received it and has yet to get q.mu.  Behind the head the queue is empty
\* or holds a second main, or the head has a waiter.  The clock does not move
\* in SpecLinger, so that no timer armed later fires: every timer value the
\* loop handles there is the one these states start with.
LingerAges == {requestTimeout, requestTimeout + reapTick - respFlushTimeout}
QueuedAges == {0, 2 * reapTick}

\* The second slot: free, a main queued behind the head, or a waiter of it.
Followers ==
    {FreeReq}
    \cup {[FreeReq EXCEPT !.pc = "ret", !.kind = "main", !.Request = <<2>>,
                          !.DataHash = HashOf[<<2>>], !.ID = 2,
                          !.Timestamp = age] : age \in QueuedAges}
    \cup {[FreeReq EXCEPT !.pc = "ret", !.kind = "waiter", !.Request = <<1>>,
                          !.DataHash = HashOf[<<1>>], !.attachedTo = 1,
                          !.Timestamp = age] : age \in QueuedAges}

InitLinger ==
    /\ \E sent \in LingerAges, second \in Followers :
          /\ reqs = [r \in Reqs |-> IF r = 1 THEN Written(<<1>>, sent)
                                    ELSE IF r = 2 THEN second ELSE FreeReq]
          /\ pending = IF second.kind = "main" THEN <<1, 2>> ELSE <<1>>
          /\ inflight = IF second.kind = "main"
                        THEN MapPut(MapPut(EmptyMap, HashOf[<<1>>], 1),
                                    HashOf[<<2>>], 2)
                        ELSE MapPut(EmptyMap, HashOf[<<1>>], 1)
          /\ waiting = IF second.kind = "waiter"
                       THEN MapPut(EmptyMap, HashOf[<<1>>], <<2>>)
                       ELSE EmptyMap
          /\ nextReqID = IF second.kind = "main" THEN 2 ELSE 1
    /\ cache = EmptyMap
    /\ respBuf \in Responses
    /\ \/ respTimer = "fired" /\ flushLoop = [sel |-> 1, recv |-> 0]
       \/ respTimer = "idle" /\ flushLoop = [sel |-> 0, recv |-> 1]
    /\ currentReqID = 1
    /\ respState = respStateWaiting
    /\ dropUntil = 0
    /\ stopCleanup = FALSE
    /\ stopFlushLoop = FALSE
    /\ stopCalls = 0
    /\ linger = 0
    /\ wStart = [r \in Reqs |-> 0]
    /\ wWriting = [r \in Reqs |-> 0]
    /\ reaper = [pc |-> "ticker", expired |-> <<>>, firstWasExpired |-> FALSE]
    /\ sinceTick = reapTick
    /\ linkWrites = <<1>>
    /\ promoted = <<1>>
    /\ mu = "free"
    /\ serialReadLoop = "reading"
    /\ panicked = FALSE
    /\ lastSet = EmptyMap
    /\ lastSweep = NoSweep
    /\ rx = [n |-> 0, key |-> "none"]
    /\ serialBuffer = <<>>
    /\ wire = NoReads

NextLinger ==
    \/ ReaperTick
    \/ ReaperFinish
    \/ \E p \in Payloads : Send(p)
    \/ \E r \in Reqs : WriterGate(r)
    \/ \E r \in Reqs, err \in BOOLEAN : WriterReturn(r, err)
    \/ \E data \in Frames : OnSerialData(data)
    \/ FlushLoopRecv
    \/ FlushLoopFired
SpecLinger == InitLinger /\ [][NextLinger]_vars

\* ------------------------------------------------ RequestCache, used alone
\* The cache as its tests use it: stores with any TTL or the default one,
\* sweeps and the passing of time, in any order.  lastSet keeps the latest
\* store of each hash and its time left, whatever the sweeps remove;
\* lastSweep keeps the map a sweep found and the map it left, until the
\* next store or clock step.
Hashes == {HashOf[p] : p \in Payloads}

\* TTLs of the stores and steps of the clock (ms).
TTLs == {respFlushTimeout, cacheTTLMin}
ClockSteps == {respFlushTimeout, reapTick}

NonCacheVars ==
    <<reqs, pending, inflight, waiting, nextReqID, respBuf, respTimer,
      flushLoop, currentReqID, respState, dropUntil, stopCleanup,
      stopFlushLoop, stopCalls, linger, wStart, wWriting, reaper, sinceTick,
      linkWrites, promoted, mu, serialReadLoop, panicked, rx,
      serialBuffer, wire>>

\* cache.SetWithTTL(hash, data, ttl)
CacheStore(hash, data, ttl) ==
    /\ cache' = CacheSetWithTTL(cache, hash, data, ttl)
    /\ lastSet' = MapPut(lastSet, hash, [data |-> data, expireAt |-> ttl])
    /\ lastSweep' = NoSweep
    /\ UNCHANGED NonCacheVars

\* cache.Set(hash, data)
CacheStoreDefault(hash, data) ==
    /\ cache' = CacheSet(cache, hash, data)
    /\ lastSet' = MapPut(lastSet, hash,
                         [data |-> data, expireAt |-> defaultCacheTTL])
    /\ lastSweep' = NoSweep
    /\ UNCHANGED NonCacheVars

\* cache.CleanupExpired()
CacheSweep ==
    /\ cache' = CacheCleanupExpired(cache)
    /\ lastSweep' = [from |-> cache, to |-> cache']
    /\ UNCHANGED lastSet
    /\ UNCHANGED NonCacheVars

\* d ms pass (time.Sleep in the tests).
CacheClock(d) ==
    /\ \E h \in DOMAIN lastSet : lastSet[h].expireAt >= 0
    /\ cache' = [h \in DOMAIN cache |->
                    [cache[h] EXCEPT !.expireAt = Max(@ - d, -1)]]
    /\ lastSet' = [h \in DOMAIN lastSet |->
                      [lastSet[h] EXCEPT !.expireAt = Max(@ - d, -1)]]
    /\ lastSweep' = NoSweep
    /\ UNCHANGED NonCacheVars

NextCache ==
    \/ \E h \in Hashes, data \in Responses, ttl \in TTLs :
            CacheStore(h, data, ttl)
    \/ \E h \in Hashes, data \in Responses : CacheStoreDefault(h, data)
    \/ CacheSweep
    \/ \E d \in ClockSteps : CacheClock(d)

SpecCache == Init /\ [][NextCache]_vars

\* ----------------------------------------------------------------- claims
\* What the receiver of r's channel has got.
Outcome(r) == reqs[r].out

\* C1: under every interleaving of the finish calls of the frame flush, the
\* reaper and the write-failure path, a request gets at most one outcome:
\* one byte sequence or one no-response close, never both, never one twice;
\* and a byte sequence is sent on the channel only once and before the close.
C1_AtMostOneOutcome ==
    \A r \in Reqs :
        /\ Len(Outcome(r)) <= 1
        /\ Len(reqs[r].ch) <= 1
        /\ reqs[r].closed <=> Len(Outcome(r)) = 1
        /\ reqs[r].kind # "cache" => (reqs[r].done <=> reqs[r].closed)

\* C1 witness: a request that was finished with bytes and on which the
\* other paths called finish again.
C1_Witness ==
    \E r \in Reqs :
        /\ reqs[r].calls = MaxCalls
        /\ Outcome(r) # <<>>
        /\ Outcome(r)[1].kind = "bytes"

\* C2: every request Send accepted (answered from the cache, attached as
\* a waiter or appended to the queue) eventually has exactly one outcome,
\* while the reaper keeps ticking and device writes return.
C2_EventuallyOneOutcome ==
    \A r \in Reqs : (reqs[r].pc = "ret") ~> (Len(Outcome(r)) = 1)

\* C2 witness: a main, a waiter and a cache hit that all have their outcome.
C2_Witness ==
    /\ \E r \in Reqs : reqs[r].kind = "main" /\ Len(Outcome(r)) = 1
    /\ \E r \in Reqs : reqs[r].kind # "main" /\ Len(Outcome(r)) = 1

\* A request Send accepted into the engine that has no outcome yet.
Open(r) == reqs[r].pc = "ret" /\ reqs[r].kind # "cache" /\ Outcome(r) = <<>>

\* The instant CleanupExpired measures a request's timeout from, as an
\* age: the send time of a main that was written, else the enqueue time.
TimeoutBase(r) ==
    IF reqs[r].SentAt = ZeroTime THEN reqs[r].Timestamp ELSE reqs[r].SentAt

\* C3 as stated: a request without outcome was submitted at most
\* requestTimeout + reapTick ago, whether it is the head, queued behind
\* other mains, or a waiter.
C3_WithinTimeoutOfSubmission ==
    \A r \in Reqs : Open(r) => reqs[r].Timestamp <= requestTimeout + reapTick

\* C3 amended: a request without outcome has its timeout base at most
\* requestTimeout + reapTick back: the submission for a waiter and for a
\* main that was not written yet, the end of the write for a main that was
\* written.  So a main completes within requestTimeout + reapTick of its
\* submission while unwritten, and of its write once written.
C3_WithinTimeoutOfBase ==
    \A r \in Reqs :
        Open(r) =>
            /\ TimeoutBase(r) <= requestTimeout + reapTick
            /\ reqs[r].kind = "waiter" =>
                    reqs[r].Timestamp <= requestTimeout + reapTick
            /\ reqs[r].Timestamp <= 2 * (requestTimeout + reapTick)

\* C3 witness: a written main that is still open more than requestTimeout
\* + reapTick after its submission, and one more tick period has passed.
C3_Witness ==
    \E r \in Reqs :
        /\ Open(r)
        /\ reqs[r].SentAt # ZeroTime
        /\ reqs[r].Timestamp > requestTimeout + reapTick
        /\ reqs[r].SentAt > requestTimeout

\* C4: the requests in q.pending have pairwise distinct fingerprints, and a
\* fingerprint has at most one inflight main: the mains that hold a place
\* in the engine with one fingerprint are at most one, and it is the one
\* q.inflight names.
C4_UniqueFingerprints ==
    /\ \A i, j \in DOMAIN pending :
            i # j => reqs[pending[i]].DataHash # reqs[pending[j]].DataHash
    /\ \A r \in Range(pending) :
            /\ reqs[r].DataHash \in DOMAIN inflight
            /\ inflight[reqs[r].DataHash] = r
    /\ \A h \in DOMAIN inflight :
            /\ inflight[h] \in Range(pending)
            /\ reqs[inflight[h]].DataHash = h

\* C4 witness: two mains with different fingerprints are queued and one of
\* the payloads was sent again, which left the queue as it was.
C4_Witness ==
    \E w \in Reqs :
        /\ reqs[w].kind = "waiter"
        /\ Open(w)
        /\ Len(pending) = 2
        /\ Cardinality(DOMAIN inflight) = 2

\* C5: respState waiting implies a head whose SentAt is set and whose ID is
\* currentReqID; respState idle implies currentReqID = 0.
C5_StateCoherence ==
    /\ respState = respStateWaiting =>
            /\ pending # <<>>
            /\ reqs[Head(pending)].SentAt # ZeroTime
            /\ reqs[Head(pending)].ID = currentReqID
    /\ respState = respStateIdle => currentReqID = 0

\* C5 witness: the engine waits for the response of a second head, after
\* the first one left the queue.
C5_Witness ==
    /\ respState = respStateWaiting
    /\ currentReqID > 1
    /\ Len(promoted) > 1

\* r has the outcome "bytes".
GotBytes(r) == Outcome(r) # <<>> /\ Outcome(r)[1].kind = "bytes"

\* The requests that were attached to main m as waiters.
WaitersOf(m) == {w \in Reqs : reqs[w].kind = "waiter" /\ reqs[w].attachedTo = m}

\* Number of occurrences of r in the sequence s.
Count(s, r) == Cardinality({i \in DOMAIN s : s[i] = r})

\* A step in which Send accepted payload p: slot r leaves the free pool.
Sent(r, p) == reqs[r].pc = "free" /\ reqs'[r].pc = "ret" /\ reqs'[r].Request = p

\* C6 as stated: a waiter is never in the queue, never the head and never
\* written, and the link sees exactly one write for a main and all of its
\* waiters: a main that has its outcome was written once.
C6_ExactlyOneWrite ==
    /\ \A w \in Reqs :
            reqs[w].kind = "waiter" =>
                /\ w \notin Range(pending)
                /\ w \notin Range(promoted)
                /\ w \notin Range(linkWrites)
    /\ \A m \in Reqs :
            (reqs[m].kind = "main" /\ Outcome(m) # <<>>) =>
                Count(linkWrites, m) = 1

\* C6 amended: a Send of a payload whose fingerprint has an inflight main
\* attaches the request to that fingerprint's waiter list and changes
\* neither the queue nor the writers; a waiter is never in the queue, never
\* the head and never written to the link; the link sees at most one write
\* for a main and all of its waiters, and exactly one if they got the
\* device's bytes (a main that is timed out before it is written is
\* completed, with its waiters, without any write).
C6_WaiterStep ==
    \A r \in Reqs, p \in Payloads :
        (Sent(r, p) /\ HashOf[p] \in DOMAIN inflight) =>
            /\ reqs'[r].kind = "waiter"
            /\ HashOf[p] \in DOMAIN waiting'
            /\ waiting'[HashOf[p]] = Append(WaitingList(HashOf[p]), r)
            /\ UNCHANGED <<pending, inflight, promoted, linkWrites, wStart,
                           wWriting, respState, currentReqID>>

C6_WaiterState ==
    /\ \A w \in Reqs :
            reqs[w].kind = "waiter" =>
                /\ w \notin Range(pending)
                /\ w \notin Range(promoted)
                /\ w \notin Range(linkWrites)
                /\ wStart[w] = 0 /\ wWriting[w] = 0
                /\ Open(w) => w \in Range(WaitingList(reqs[w].DataHash))
                               \/ w \in Range(reaper.expired)
    /\ \A m \in Reqs :
            reqs[m].kind = "main" =>
                /\ Count(linkWrites, m) <= 1
                /\ GotBytes(m) => Count(linkWrites, m) = 1

\* C6 amended, as one property: a Send onto an inflight main only extends
\* its waiter list, and waiters are never queued, promoted or written.
C6_WaitersNeverWritten == [][C6_WaiterStep /\ C6_WaiterState']_vars

\* C6 witness: a main and a waiter attached to it both have the device's
\* bytes, and the link saw one write.
C6_Witness ==
    \E m \in Reqs : \E w \in WaitersOf(m) :
        /\ GotBytes(m)
        /\ Outcome(w) = Outcome(m)
        /\ linkWrites = <<m>>

\* C7 as stated: once a main is completed with bytes B, no request that
\* was attached to it as a waiter has the no-response outcome, and those
\* that have an outcome have B.
C7_WaitersShareResponse ==
    \A m \in Reqs : \A w \in WaitersOf(m) :
        GotBytes(m) =>
            /\ Outcome(w) # <<NoResponse>>
            /\ Outcome(w) # <<>> => Outcome(w) = Outcome(m)

\* C7 amended: the waiters that share the main's bytes are those still on
\* its waiter list when it completes (a waiter is timed out on its own,
\* requestTimeout after its own submission, while the main's timeout runs
\* from its write).  In the step that completes a main with B every waiter
\* then on its list is completed with B, and a waiter never gets bytes
\* other than its main's.
C7_AttachedStep ==
    \A m \in Reqs :
        (reqs[m].kind = "main" /\ Outcome(m) = <<>> /\ GotBytes(m)') =>
            \A w \in Range(WaitingList(reqs[m].DataHash)) :
                /\ w \in WaitersOf(m)
                /\ Outcome(w)' = Outcome(m)'

C7_AttachedState ==
    \A m \in Reqs : \A w \in WaitersOf(m) :
        GotBytes(w) => Outcome(w) = Outcome(m)

\* C7 amended: the waiters on the list when the main completes with bytes
\* get the same bytes, and no waiter ever gets other bytes than its main.
C7_AttachedWaitersShareResponse == [][C7_AttachedStep /\ C7_AttachedState']_vars

\* C7 witness: a waiter that was on the list when its main was completed
\* with bytes, and has the same bytes.
C7_Witness ==
    \E m \in Reqs : \E w \in WaitersOf(m) :
        GotBytes(m) /\ Outcome(w) = Outcome(m)

\* A cache-hit Send of payload p into slot r.
CacheHit(r, p) == Sent(r, p) /\ CacheGet(cache, HashOf[p]).found

\* C8: a Send whose fingerprint has a live cache entry returns a channel
\* that is already resolved with exactly the cached bytes and closed; it
\* leaves the queue, the inflight index, the waiter map, respState and
\* currentReqID unchanged and starts no writer and no link write.  (Two
\* such Sends against one entry therefore return identical bytes: the
\* entry's.)
C8_CacheHitStep ==
    \A r \in Reqs, p \in Payloads :
        CacheHit(r, p) =>
            /\ reqs'[r].ch = <<cache[HashOf[p]].data>>
            /\ reqs'[r].closed
            /\ Outcome(r)' = <<Bytes(cache[HashOf[p]].data)>>
            /\ cache[HashOf[p]].expireAt >= 0
            /\ UNCHANGED <<pending, inflight, waiting, respState, currentReqID,
                           cache, nextReqID, respBuf, wStart, wWriting,
                           linkWrites, promoted>>

\* C8: every cache-hit Send returns the cached bytes and changes nothing
\* of the engine.
C8_CacheHit == [][C8_CacheHitStep]_vars

\* C8 witness: two Sends of one payload were answered from the cache with
\* the same bytes, after a single link write.
C8_Witness ==
    \E r1, r2 \in Reqs :
        /\ r1 # r2
        /\ reqs[r1].kind = "cache" /\ reqs[r2].kind = "cache"
        /\ reqs[r1].Request = reqs[r2].Request
        /\ Outcome(r1) = Outcome(r2)
        /\ GotBytes(r1)
        /\ Len(linkWrites) = 1

\* s is a prefix of t.
IsPrefix(s, t) == Len(s) <= Len(t) /\ \A i \in DOMAIN s : s[i] = t[i]

\* The IDs along s grow strictly: s follows the order of acceptance and
\* names no request twice.
InAcceptOrder(s) ==
    \A i, j \in DOMAIN s : i < j => reqs[s[i]].ID < reqs[s[j]].ID

\* C9 as stated: the sequence of link writes is the sequence of head
\* promotions (the writes so far are the promotions so far, but for
\* promoted heads whose write is still to come), in the order the mains
\* were accepted.
C9_WritesEqualPromotions ==
    /\ IsPrefix(linkWrites, promoted)
    /\ InAcceptOrder(promoted)

\* C9 amended: the link writes are a subsequence of the head promotions, in
\* the order the mains were accepted: a promoted head that the reaper
\* removes before its writer passed the gate is never written.  No request
\* is written twice, none while it is not the head, and none before an
\* earlier-accepted main that is still queued.
C9_WriteStep ==
    linkWrites' # linkWrites =>
        /\ Len(linkWrites') = Len(linkWrites) + 1
        /\ IsPrefix(linkWrites, linkWrites')
        /\ pending # <<>>
        /\ linkWrites'[Len(linkWrites')] = Head(pending)
        /\ pending' = pending

C9_WriteState ==
    /\ Range(linkWrites) \subseteq Range(promoted)
    /\ InAcceptOrder(linkWrites)
    /\ InAcceptOrder(promoted)
    /\ InAcceptOrder(pending)
    /\ \A r \in Range(linkWrites) : \A q \in Range(pending) :
            reqs[r].ID <= reqs[q].ID \/ q = Head(pending)

\* C9 amended: link writes are a subsequence of the head promotions, in
\* acceptance order, each made while its request is the head.
C9_WritesFollowPromotions == [][C9_WriteStep /\ C9_WriteState']_vars

\* C9 witness: two heads written in the order of their promotion, after a
\* head before them was promoted and never written.
C9_Witness ==
    /\ Len(promoted) = 3
    /\ linkWrites = <<promoted[2], promoted[3]>>

\* The sendToSerial goroutines that passed the gate and did not return
\* from serial.Write yet.
WritersInWrite == {r \in Reqs : wWriting[r] > 0}

\* C10: at most one sendToSerial is inside serial.Write at any time, also
\* when the reaper removes the head during its write and a successor is
\* promoted.
C10_OneWriter ==
    /\ Cardinality(WritersInWrite) <= 1
    /\ \A r \in Reqs : wWriting[r] <= 1

\* time.Now().Before(q.dropUntil): the drop window is open.
InDropWindow == dropUntil > 0

\* C11: after the head was reaped or its write failed, a device frame that
\* arrives before dropUntil is discarded: it is not taken into the response
\* accumulator, also when a successor has been written and is waiting.
C11_DropWindowDiscards ==
    [][InDropWindow => Len(respBuf') <= Len(respBuf)]_vars

\* The queue head (0: the queue is empty).
HeadReq == IF pending = <<>> THEN 0 ELSE Head(pending)

\* The head has been written, is waiting for its response and is the
\* current request.
HeadIsCurrent ==
    /\ pending # <<>>
    /\ respState = respStateWaiting
    /\ reqs[Head(pending)].ID = currentReqID
    /\ reqs[Head(pending)].SentAt # ZeroTime
    /\ Head(pending) \in Range(linkWrites)

\* r is completed with bytes in this step.
GetsBytes(r) == Outcome(r) = <<>> /\ GotBytes(r)'

\* C12, the steps: a frame is taken only for the written head whose ID is
\* currentReqID; the accumulated bytes do not survive a change of head; and
\* bytes are delivered only from the accumulator, to the head they were
\* taken for and to the waiters of its fingerprint.
C12_AttributionStep ==
    /\ Len(respBuf') > Len(respBuf) => HeadIsCurrent /\ HeadReq' = HeadReq
    /\ respBuf # <<>> /\ HeadReq' # HeadReq => respBuf' = <<>>
    /\ \A r \in Reqs : GetsBytes(r) /\ reqs[r].kind = "main" =>
            /\ r = HeadReq
            /\ reqs[r].ID = currentReqID
            /\ respBuf # <<>>
            /\ Outcome(r)' = <<Bytes(respBuf)>>
    /\ \A w \in Reqs : GetsBytes(w) /\ reqs[w].kind = "waiter" =>
            \E h \in Reqs :
                /\ h = HeadReq
                /\ w \in Range(WaitingList(reqs[h].DataHash))
                /\ GetsBytes(h)
                /\ Outcome(w)' = <<Bytes(respBuf)>>

\* C12, the states: accumulated bytes belong to the present head, which is
\* written, waiting and the current request.
C12_AttributionState == respBuf # <<>> => HeadIsCurrent

\* C12: a device frame is attributed to at most one main, the head with ID
\* currentReqID at the moment the frame arrived (and its waiters), never to
\* a later head and never to two mains.
C12_FrameToOneMain == [][C12_AttributionStep /\ C12_AttributionState']_vars

\* C12 witness: two mains, each completed with the bytes taken while it was
\* the head.
C12_Witness ==
    \E a, b \in Reqs :
        /\ a # b
        /\ reqs[a].kind = "main" /\ GotBytes(a)
        /\ reqs[b].kind = "main" /\ GotBytes(b)

\* The goroutine of r comes back from a failed serial.Write while r is the
\* head: the only step that takes a writer out of serial.Write and the head
\* off the queue.
WriteFails(r) ==
    /\ wWriting[r] > 0
    /\ wWriting'[r] = wWriting[r] - 1
    /\ pending # <<>>
    /\ Head(pending) = r
    /\ pending' # pending

\* C13: when the link write of the head fails, the head and the waiters of
\* its fingerprint, and nothing else, leave the queue, the inflight index
\* and the waiter map and are completed without response; respState becomes
\* idle, currentReqID 0 and dropUntil now + 150 ms; every other request
\* stays as it was, in order, and a sendToSerial is started for the next
\* head.
C13_WriteFailureStep ==
    \A r \in Reqs : WriteFails(r) =>
        LET hash == reqs[r].DataHash
            gone == {r} \cup (IF hash \in DOMAIN waiting
                              THEN Range(waiting[hash]) ELSE {})
        IN  /\ pending' = Tail(pending)
            /\ inflight' = [h \in DOMAIN inflight \ {hash} |-> inflight[h]]
            /\ waiting' = [h \in DOMAIN waiting \ {hash} |-> waiting[h]]
            /\ \A x \in gone : Outcome(x) = <<>> /\ Outcome(x)' = <<NoResponse>>
            /\ \A x \in Reqs \ gone : reqs'[x] = reqs[x]
            /\ respState' = respStateIdle
            /\ currentReqID' = 0
            /\ dropUntil' = dropWindow
            /\ \A x \in Reqs \ gone :
                   wStart'[x] = IF pending' # <<>> /\ x = Head(pending')
                                THEN wStart[x] + 1 ELSE wStart[x]

Submitted(r) == reqs[r].pc = "free" /\ reqs'[r].pc # "free"

\* r is completed in this step.
Completed(r) == Outcome(r) = <<>> /\ Outcome(r)' # <<>>

\* C14: once the device read loop has hit a fatal (non-timeout) read error
\* the engine is halted: a request completed from then on is completed
\* without response, and a later Send fails without response instead of
\* being queued.
C14_ReadErrorHalts ==
    [][serialReadLoop # "reading" =>
          \A r \in Reqs :
              /\ Completed(r) => Outcome(r)' = <<NoResponse>>
              /\ Submitted(r) => Outcome(r)' = <<NoResponse>>]_vars

\* A StopCleanupTimer call is made in this step.
Stops == stopCalls' = stopCalls + 1

\* C15: when StopCleanupTimer is called while mains are queued or waiters
\* are attached, each of them is completed without response: none is left
\* with an open completion when the call returns.
C15_ShutdownClosesPending ==
    [][Stops => \A r \in Reqs : Open(r) => Outcome(r)' = <<NoResponse>>]_vars

\* The requests on a waiter list.
Waiters == UNION {Range(waiting[h]) : h \in DOMAIN waiting}

\* C16: after StopCleanupTimer a Send is not accepted: its channel is closed
\* without response and it enters neither the queue nor a waiter list (so
\* no link write is issued for it).
C16_NoIntakeAfterShutdown ==
    [][stopCleanup =>
          \A r \in Reqs : Submitted(r) =>
              /\ Outcome(r)' = <<NoResponse>>
              /\ r \notin Range(pending')
              /\ r \notin Waiters']_vars

\* What a StopCleanupTimer call leaves behind: both stop channels closed,
\* no response timer, an empty accumulator.
Stopped ==
    /\ stopCleanup
    /\ stopFlushLoop
    /\ respTimer = "nil"
    /\ respBuf = <<>>

\* C17, the calls: every call ends in the Stopped state and touches nothing
\* else, so a call made on what a call left behind changes nothing.
C17_StopStep ==
    Stops =>
        /\ Stopped'
        /\ UNCHANGED <<reqs, pending, inflight, waiting, cache, nextReqID,
                       flushLoop, currentReqID, respState, dropUntil, linger,
                       wStart, wWriting, reaper, sinceTick, linkWrites,
                       promoted, mu, serialReadLoop, lastSet, lastSweep,
                       rx, serialBuffer, wire>>
        /\ Stopped => UNCHANGED <<respTimer, respBuf, stopCleanup,
                                  stopFlushLoop, panicked>>

\* C17: StopCleanupTimer is idempotent.  No call panics on a closed channel,
\* a repeated call leaves the engine as the first one did, the stop channels
\* stay closed, the cleanup goroutine returns and stays returned, and the
\* flush loops return.
C17_ShutdownIdempotent ==
    /\ [](~panicked)
    /\ [][C17_StopStep]_vars
    /\ [][stopCleanup => stopCleanup' /\ stopFlushLoop']_vars
    /\ [][reaper.pc = "exited" => reaper'.pc = "exited"]_vars
    /\ stopCleanup ~> (reaper.pc = "exited")
    /\ stopCleanup ~> (flushLoop.sel = 0 /\ flushLoop.recv = 0)

\* C17 witness: StopCleanupTimer was called twice on an engine that had a
\* request and a flush loop; nothing panicked and both goroutines are gone.
C17_Witness ==
    /\ stopCalls >= 2
    /\ ~panicked
    /\ promoted # <<>>
    /\ respTimer # "nil"
    /\ reaper.pc = "exited"
    /\ flushLoop.sel = 0 /\ flushLoop.recv = 0

\* C18: a completion handle is consumed once.  Of a request completed with
\* bytes B the first receive returns B and every later one the empty result
\* of the closed channel; of a request completed without response every
\* receive returns the empty result; a receive on a completed request does
\* not block, and none returns before the completion.
C18_ConsumedOnce ==
    \A r \in Reqs :
        LET got == reqs[r].got
        IN  /\ Outcome(r) = <<>> => got = <<>> /\ ~CanReceive(r)
            /\ Outcome(r) # <<>> => CanReceive(r)
            /\ GotBytes(r) =>
                   \A i \in DOMAIN got :
                       got[i] = IF i = 1 THEN Outcome(r)[1] ELSE NoResponse
            /\ Outcome(r) = <<NoResponse>> =>
                   \A i \in DOMAIN got : got[i] = NoResponse

\* C18 witness: a request completed with bytes whose channel was read
\* twice, and one completed without response whose channel was read.
C18_Witness ==
    \E a, b \in Reqs :
        /\ GotBytes(a)
        /\ Len(reqs[a].got) = 2
        /\ Outcome(b) = <<NoResponse>>
        /\ reqs[b].got # <<>>

\* C19: the link write is made with q.mu released, and so are the finish
\* calls of the reaper: while a sendToSerial goroutine is inside
\* serial.Write, or the reaper between its two locked parts, the lock is
\* free for Send, OnSerialData and CleanupExpired.
C19_WriteOutsideLock ==
    WritersInWrite # {} \/ reaper.pc = "unlocked" => mu = "free"

\* C19 witness: with the goroutine of a still inside serial.Write,
\* CleanupExpired has expired a, a Send with the payload of a has been
\* queued as a new main, and OnSerialData has taken a frame for it.
C19_Witness ==
    \E a, b \in Reqs :
        /\ a # b
        /\ wWriting[a] > 0
        /\ Outcome(a) = <<NoResponse>>
        /\ reqs[b].kind = "main"
        /\ reqs[b].Request = reqs[a].Request
        /\ respBuf # <<>>

\* C20: Get(hash) returns the bytes of the latest Set / SetWithTTL for hash
\* while that entry has not expired, and a miss for a hash never stored or
\* whose latest entry has expired, swept or not.
C20_GetReturnsLatest ==
    \A h \in Hashes :
        CacheGet(cache, h) =
            IF h \in DOMAIN lastSet /\ lastSet[h].expireAt >= 0
            THEN [found |-> TRUE, data |-> lastSet[h].data]
            ELSE [found |-> FALSE, data |-> <<>>]

\* C20 witness: one hash whose latest entry has expired and is still in the
\* map (a miss), and another whose latest store, of two bytes, is returned.
C20_Witness ==
    \E h, k \in Hashes :
        /\ h \in DOMAIN cache
        /\ cache[h].expireAt < 0
        /\ ~CacheGet(cache, h).found
        /\ k # h
        /\ CacheGet(cache, k).found
        /\ CacheGet(cache, k).data = <<170, 170>>

\* The entries of the map the sweep just made found whose time left satisfies
\* keep.
SweepKept(keep(_)) ==
    [h \in {x \in DOMAIN lastSweep.from : keep(lastSweep.from[x].expireAt)}
        |-> lastSweep.from[h]]

ExpiryAfterNow(left) == left > 0
ExpiryNotBeforeNow(left) == left >= 0

\* C21 as stated: the cache sweep removes every entry whose expiry is <= now,
\* the entry that expires at this very instant included, and keeps every
\* entry whose expiry is later.
C21_SweepRemovesUpToNow == lastSweep.to = SweepKept(ExpiryAfterNow)

\* C21 amended: the cache sweep removes every entry whose expiry is earlier
\* than now and keeps, unchanged, every entry whose expiry is now or later:
\* the entry that expires at this very instant stays (Get still returns it).
C21_SweepRemovesBeforeNow ==
    /\ lastSweep.to = SweepKept(ExpiryNotBeforeNow)
    /\ \A h \in DOMAIN lastSweep.from :
           lastSweep.from[h].expireAt = 0 =>
               CacheGet(lastSweep.from, h).found /\ h \in DOMAIN lastSweep.to

\* C21 witness: a sweep that found one entry past its expiry and one at its
\* expiry, removed the first and kept the second.
C21_Witness ==
    \E h, k \in Hashes :
        /\ h \in DOMAIN lastSweep.from /\ lastSweep.from[h].expireAt < 0
        /\ k \in DOMAIN lastSweep.from /\ lastSweep.from[k].expireAt = 0
        /\ DOMAIN lastSweep.to = {k}

\* The mains Send has created so far, in or out of the queue.
Mains == {r \in Reqs : reqs[r].kind = "main"}

\* C22: request IDs are assigned on acceptance into the queue, strictly
\* increasing in acceptance order (Send fills the slots in order) and never
\* reused: no two mains ever created share an ID, every assigned ID is >= 1
\* and is the counter's value at most, and the IDs in the queue increase
\* strictly from head to tail.  Waiters and cache hits take no ID.
C22_IdsStrictlyIncrease ==
    /\ \A a, b \in Mains : a < b => reqs[a].ID < reqs[b].ID
    /\ \A a \in Mains : reqs[a].ID >= 1 /\ reqs[a].ID <= nextReqID
    /\ \A r \in Reqs \ Mains : reqs[r].ID = 0
    /\ \A i, j \in DOMAIN pending : i < j => reqs[pending[i]].ID < reqs[pending[j]].ID
    /\ Range(pending) \subseteq Mains
    /\ Cardinality({reqs[a].ID : a \in Mains}) = Cardinality(Mains)
    /\ nextReqID = Cardinality(Mains)

\* C22 witness: three mains were accepted with the IDs 1, 2, 3; the first
\* has left the queue and the other two are queued in that order.
C22_Witness ==
    \E a, b, c \in Reqs :
        /\ reqs[a].ID = 1 /\ Outcome(a) # <<>>
        /\ reqs[b].ID = 2 /\ reqs[c].ID = 3
        /\ pending = <<b, c>>

\* A flushResponseLoop flushes in this step: it is past its timer receive
\* and finds a head and accumulated bytes.
Flushes ==
    /\ flushLoop'.recv = flushLoop.recv - 1
    /\ pending # <<>>
    /\ respBuf # <<>>

\* C23: when the accumulated frame is attributed to the head, one step
\* removes the head from the queue and the inflight index, detaches its
\* waiter list from the waiter map, sets currentReqID to 0 and respState to
\* idle and maps the head's fingerprint in the cache to exactly the frame
\* bytes, with an expiry one TTL (1 s to 30 s) ahead; the head and every
\* detached waiter receive those same bytes, and nothing else is completed
\* or removed.
C23_FlushStep ==
    Flushes =>
        LET h == Head(pending)
            hash == reqs[h].DataHash
            list == IF hash \in DOMAIN waiting THEN waiting[hash] ELSE <<>>
            got == {h} \cup Range(list)
        IN  /\ pending' = Tail(pending)
            /\ inflight' = [x \in DOMAIN inflight \ {hash} |-> inflight[x]]
            /\ waiting' = [x \in DOMAIN waiting \ {hash} |-> waiting[x]]
            /\ currentReqID' = 0
            /\ respState' = respStateIdle
            /\ respBuf' = <<>>
            /\ DOMAIN cache' = DOMAIN cache \cup {hash}
            /\ cache'[hash].data = respBuf
            /\ cache'[hash].expireAt >= cacheTTLMin
            /\ cache'[hash].expireAt <= cacheTTLMax
            /\ \A x \in DOMAIN cache \ {hash} : cache'[x] = cache[x]
            /\ \A x \in got : Outcome(x) = <<>> /\ Outcome(x)' = <<Bytes(respBuf)>>
            /\ \A x \in got : reqs'[x].ch = <<respBuf>> /\ reqs'[x].closed
            /\ \A x \in Reqs \ got : reqs'[x] = reqs[x]

C23_FlushCompletesHead == [][C23_FlushStep]_vars

\* C23 witness: at a tick instant a flush has completed a head, written one
\* tick period before, and its waiter with the bytes it stored in the cache
\* for twice that time, and the engine is idle with the next main at the
\* head.
C23_Witness ==
    \E m, w, n \in Reqs :
        /\ reqs[m].kind = "main" /\ GotBytes(m)
        /\ reqs[w].attachedTo = m /\ Outcome(w) = Outcome(m)
        /\ reqs[m].DataHash \in DOMAIN cache
        /\ Bytes(cache[reqs[m].DataHash].data) = Outcome(m)[1]
        /\ cache[reqs[m].DataHash].expireAt = 2 * reapTick
        /\ sinceTick = reapTick
        /\ pending = <<n>>
        /\ reqs[m].DataHash \notin DOMAIN inflight
        /\ respState = respStateIdle /\ currentReqID = 0

\* An OnSerialData call is recorded in this step.
FrameHanded == rx'.n = rx.n + 1

\* C24: a frame handed to the engine while respState is not waiting (idle or
\* sending) is discarded with no effect: the queue, the inflight index, the
\* waiter map, the response accumulator and its timer, the cache,
\* currentReqID, respState, the drop window and every request are unchanged,
\* no request is completed, no writer and no flush loop is started; the call
\* only reports the anomaly drop_state.
C24_DiscardStep ==
    FrameHanded /\ respState # respStateWaiting =>
        /\ UNCHANGED <<reqs, pending, inflight, waiting, respBuf, respTimer,
                       cache, currentReqID, respState, dropUntil, nextReqID,
                       flushLoop, wStart, wWriting, reaper, linkWrites,
                       promoted, mu>>
        /\ rx'.key = "drop_state"

C24_FrameOutsideWaitingDiscarded == [][C24_DiscardStep]_vars

\* C24 witness: frames were handed to the engine while it was idle with an
\* unwritten head and again while that head's link write was in progress;
\* the accumulator is empty and the head has no outcome.
C24_Witness ==
    /\ rx = [n |-> 2, key |-> "drop_state"]
    /\ respState = respStateSending
    /\ pending # <<>>
    /\ wWriting[Head(pending)] = 1
    /\ respBuf = <<>>
    /\ respTimer = "nil"
    /\ Open(Head(pending))

\* The TTL the claim gives for a round trip of rtt ms.
ClampedTTL(rtt) ==
    IF rtt < cacheTTLMin \div 2 THEN cacheTTLMin
    ELSE IF rtt > cacheTTLMax \div 2 THEN cacheTTLMax
    ELSE 2 * rtt

\* Round trips a clock that stepped back would give.
NegativeRTTs == {-cacheTTLMax, -reapTick, -1}

\* C25, the flush: the response is cached for the clamped TTL of the time
\* since the head's SentAt.
C25_TTLStep ==
    Flushes =>
        LET h == Head(pending)
            ttl == cache'[reqs[h].DataHash].expireAt
        IN  /\ reqs[h].SentAt # ZeroTime
            /\ ttl = ClampedTTL(reqs[h].SentAt)
            /\ ttl >= cacheTTLMin /\ ttl <= cacheTTLMax

Attempts(r) == wStart'[r] = wStart[r] - 1

\* What step 1 of sendToSerial(r) returns on: an empty queue, another head,
\* or a state that is not idle.
GateShut(r) ==
    \/ pending = <<>>
    \/ Head(pending) # r
    \/ respState # respStateIdle

\* C26: a sendToSerial(req) that finds the queue empty, or another request
\* at the head, or respState not idle, returns without side effect: no link
\* write is made and the queue, the indices, respState, currentReqID,
\* dropUntil, SentAt and everything else stay as they were; only the
\* goroutine is gone.
C26_ShutGateStep ==
    \A r \in Reqs : Attempts(r) /\ GateShut(r) =>
        /\ UNCHANGED <<reqs, pending, inflight, waiting, cache, nextReqID,
                       respBuf, respTimer, flushLoop, currentReqID, respState,
                       dropUntil, wWriting, reaper, linkWrites, promoted, mu>>
        /\ \A x \in Reqs \ {r} : wStart'[x] = wStart[x]

C26_ShutGateNoEffect == [][C26_ShutGateStep]_vars

\* C26 witness: the goroutine of a head that was reaped before its write
\* began has found another head and returned without writing; the link has
\* only seen the write of that other head, which is in progress.
C26_Witness ==
    \E a, b \in Reqs :
        /\ a \in Range(promoted) /\ a \notin Range(linkWrites)
        /\ Outcome(a) = <<NoResponse>>
        /\ wStart[a] = 0
        /\ pending = <<b>>
        /\ Count(linkWrites, b) = 1
        /\ wWriting[b] = 1 /\ wStart[b] = 0
        /\ reaper.pc = "ticker"
        /\ respState = respStateSending

\* The goroutine of r comes back from serial.Write in this step.
WriteComesBack(r) == wWriting'[r] = wWriting[r] - 1

\* C27: a writer whose request is no longer the queue head when its link
\* write returns (it was reaped during the write) discards the result,
\* failed or not: it sets no SentAt, changes neither respState nor
\* currentReqID nor dropUntil, completes no request, starts no writer and
\* leaves the queue, the indices and a successor that is now the head as
\* they are, also when the successor carries the same payload.
C27_DiscardStep ==
    \A r \in Reqs :
        WriteComesBack(r) /\ (pending = <<>> \/ Head(pending) # r) =>
            /\ UNCHANGED <<reqs, pending, inflight, waiting, cache, nextReqID,
                           respBuf, respTimer, flushLoop, currentReqID,
                           respState, dropUntil, wStart, reaper, linkWrites,
                           promoted, mu>>
            /\ \A x \in Reqs \ {r} : wWriting'[x] = wWriting[x]

C27_ReapedWriteDiscarded == [][C27_DiscardStep]_vars

\* C27 witness: CleanupExpired has expired a during its link write (its
\* SentAt is unset, its finish call is still to come), a Send of the same
\* payload has been queued as the new head b and is itself being written,
\* and the write of a has returned: SentAt of a is still unset, respState is
\* still sending for b and currentReqID is 0.
C27_Witness ==
    \E a, b \in Reqs :
        /\ reaper.pc = "unlocked"
        /\ a \in Range(reaper.expired)
        /\ reqs[a].SentAt = ZeroTime
        /\ linkWrites = <<a, b>>
        /\ wWriting[a] = 0
        /\ wWriting[b] = 1
        /\ pending = <<b>>
        /\ reqs[b].Request = reqs[a].Request
        /\ reqs[b].SentAt = ZeroTime
        /\ respState = respStateSending
        /\ currentReqID = 0

\* SentAt of r is assigned in this step.
SentAtSet(r) == reqs[r].SentAt = ZeroTime /\ reqs'[r].SentAt # ZeroTime

\* C28, the steps: SentAt is assigned only when the goroutine of the head
\* comes back from its link write, the head stays in the queue (the write
\* did not fail), and the same step sets currentReqID to its ID and
\* respState to waiting; a write that fails assigns nothing.
C28_SentAtStep ==
    \A r \in Reqs :
        /\ SentAtSet(r) =>
              /\ WriteComesBack(r)
              /\ pending # <<>> /\ Head(pending) = r
              /\ pending' = pending
              /\ reqs[r].kind = "main"
              /\ reqs'[r].SentAt = 0
              /\ currentReqID' = reqs[r].ID
              /\ respState = respStateSending
              /\ respState' = respStateWaiting
              /\ \A x \in Reqs \ {r} : reqs'[x] = reqs[x]
        /\ WriteFails(r) => reqs[r].SentAt = ZeroTime /\ reqs'[r].SentAt = ZeroTime

\* C28, the states: a request whose SentAt is set is a main that was written
\* and is queued (or was just taken off the queue by the reaper); waiters,
\* cache hits and mains not yet written have none.
C28_SentAtState ==
    \A r \in Reqs :
        /\ reqs[r].SentAt # ZeroTime =>
              /\ reqs[r].kind = "main"
              /\ r \in Range(pending) \/ r \in Range(reaper.expired)
              /\ r \in Range(linkWrites)
              /\ wWriting[r] = 0
        /\ reqs[r].kind # "main" => reqs[r].SentAt = ZeroTime
        /\ r \notin Range(linkWrites) => reqs[r].SentAt = ZeroTime

\* C28: SentAt is set only by the writer's successful link write for that
\* request, in the locked step that sets currentReqID and the waiting
\* state; no unwritten request, no waiter and no request whose write failed
\* has it set.
C28_SentAtOnlyBySuccessfulWrite == [][C28_SentAtStep /\ C28_SentAtState']_vars

\* C28 witness: the write of a has failed at this instant (the drop window
\* is at its full length, off the reaper's ticks) and a has no SentAt; the
\* next head has just been written and has SentAt, ID and state set.
C28_Witness ==
    \E a, b \in Reqs :
        /\ sinceTick = respFlushTimeout
        /\ dropUntil = dropWindow
        /\ linkWrites = <<a, b>>
        /\ Outcome(a) = <<NoResponse>>
        /\ reqs[a].SentAt = ZeroTime
        /\ pending = <<b>>
        /\ reqs[b].SentAt = 0
        /\ currentReqID = reqs[b].ID
        /\ respState = respStateWaiting

\* CleanupExpired runs its locked part in this step.
Reaps == reaper.pc = "ticker" /\ reaper'.pc = "unlocked"

\* CleanupExpired finishes what it expired in this step.
ReapFinishes == reaper.pc = "unlocked" /\ reaper'.pc = "ticker"

\* The timeout base of r is at least requestTimeout old.
BaseExpired(r) == TimeoutBase(r) >= requestTimeout
BaseLive(r) == ~BaseExpired(r)

\* The queued main a waiter on a list is attached to.
MainOf(w) == inflight[reqs[w].DataHash]

\* The mains of the tick: a queued request is removed as expired if and only
\* if its timeout base is requestTimeout old, and the others stay in order.
C29_MainsReaped ==
    /\ pending' = SelectSeq(pending, BaseLive)
    /\ \A r \in Range(pending) :
           r \in Range(reaper'.expired) <=> BaseExpired(r)
    /\ reaper'.firstWasExpired <=> (pending # <<>> /\ BaseExpired(Head(pending)))

\* The finish: the reaper completes, without response, the requests it
\* expired and no others.
C29_ReaperCompletes ==
    ReapFinishes =>
        \A r \in Reqs :
            IF r \in Range(reaper.expired)
            THEN Outcome(r)' = <<NoResponse>>
            ELSE reqs'[r] = reqs[r]

\* C29 as stated: on a tick a queued request is removed if and only if its
\* timeout base is at least 3 s old, the others stay queued in their order,
\* and no request is completed by the reaper earlier than 3 s after its
\* timeout base.
C29_ReapedAtTimeout ==
    [][/\ Reaps => /\ C29_MainsReaped
                   /\ \A r \in Range(reaper'.expired) : BaseExpired(r)
       /\ C29_ReaperCompletes]_vars

\* C29 amended: on a tick a queued request is removed if and only if its
\* timeout base is at least 3 s old and the others stay queued in their
\* order; a waiter is removed if and only if its main is removed at this
\* tick, however recently the waiter was enqueued, or its own enqueue time
\* is at least 3 s old, and the other waiters stay on their lists in order.
\* The reaper completes without response exactly the requests it removed:
\* no main earlier than 3 s after its timeout base, and no waiter earlier
\* than that unless its main is.
C29_WaitersReaped ==
    \A w \in Waiters :
        LET gone == BaseExpired(MainOf(w)) \/ BaseExpired(w)
            hash == reqs[w].DataHash
            StaysOn(x) == BaseLive(x)
        IN  /\ w \in Range(reaper'.expired) <=> gone
            /\ ~gone => /\ hash \in DOMAIN waiting'
                        /\ waiting'[hash] = SelectSeq(waiting[hash], StaysOn)

C29_ReapedAtTimeoutOrWithMain ==
    [][/\ Reaps => /\ C29_MainsReaped
                   /\ C29_WaitersReaped
                   /\ Range(reaper'.expired) \subseteq Range(pending) \cup Waiters
                   /\ \A r \in Range(reaper'.expired) :
                          reqs[r].kind = "main" => BaseExpired(r)
       /\ C29_ReaperCompletes]_vars

\* C29 witness: a tick found three mains, the second one 3 s old and the
\* other two younger (the head written later than enqueued); the reaper has
\* completed the second and the other two are queued in their order.
C29_Witness ==
    /\ pending = <<1, 3>>
    /\ reqs[1].Timestamp >= requestTimeout
    /\ reqs[1].SentAt # ZeroTime
    /\ reqs[1].SentAt < requestTimeout
    /\ reqs[3].Timestamp = requestTimeout - 1
    /\ Outcome(2) = <<NoResponse>>
    /\ reaper.pc = "ticker" /\ sinceTick = 0

\* C30: a reaper tick resets the engine only when the prior head was
\* expired: then respState becomes idle, currentReqID 0, the response
\* accumulator empty and dropUntil now + 150 ms.  When the prior head was
\* not expired, whatever other mains and waiters were, or the queue was
\* empty, respState, currentReqID, dropUntil and the accumulator are left as
\* they were.
C30_ResetStep ==
    Reaps =>
        IF pending # <<>> /\ BaseExpired(Head(pending))
        THEN /\ respState' = respStateIdle
             /\ currentReqID' = 0
             /\ respBuf' = <<>>
             /\ dropUntil' = dropWindow
             /\ reaper'.firstWasExpired
        ELSE /\ UNCHANGED <<respState, currentReqID, dropUntil, respBuf>>
             /\ ~reaper'.firstWasExpired

C30_ResetOnlyForExpiredHead == [][C30_ResetStep]_vars

\* C30 witness: a tick has expired the second main and a waiter of the head
\* but not the head, which was written later; the engine is still waiting
\* for the head with its accumulated bytes and no drop window.
C30_Witness ==
    \E h, m, w \in Reqs :
        /\ reaper.pc = "unlocked"
        /\ reaper.expired = <<m, w>>
        /\ reqs[m].kind = "main"
        /\ reqs[w].attachedTo = h
        /\ pending = <<h>>
        /\ respState = respStateWaiting
        /\ currentReqID = reqs[h].ID
        /\ respBuf # <<>>
        /\ dropUntil = 0

\* The waiters of an expired main: the whole list leaves the waiter map and
\* joins the expired list, whatever the ages of the waiters.
C31_WithMain ==
    \A m \in Range(pending) :
        BaseExpired(m) =>
            /\ reqs[m].DataHash \notin DOMAIN waiting'
            /\ reqs[m].DataHash \notin DOMAIN inflight'
            /\ Range(WaitingList(reqs[m].DataHash)) \subseteq Range(reaper'.expired)

\* The waiters of a main that stays: the ones enqueued requestTimeout ago
\* join the expired list, the main stays queued and indexed, and the other
\* waiters stay on its list in their order.
C31_OnItsOwn ==
    \A m \in Range(pending) :
        LET hash == reqs[m].DataHash
            list == WaitingList(hash)
            rest == SelectSeq(list, BaseLive)
        IN  BaseLive(m) =>
                /\ m \in Range(pending')
                /\ hash \in DOMAIN inflight' /\ inflight'[hash] = m
                /\ \A w \in Range(list) :
                       w \in Range(reaper'.expired) <=> BaseExpired(w)
                /\ IF rest = <<>> THEN hash \notin DOMAIN waiting'
                   ELSE hash \in DOMAIN waiting' /\ waiting'[hash] = rest

\* What the finish of the tick does to the requests on the expired list.
C31_Completed ==
    ReapFinishes =>
        \A r \in Range(reaper.expired) : Outcome(r)' = <<NoResponse>>

\* C31: when the reaper expires a queued main, every waiter of its
\* fingerprint is detached and completed with no-response together with it,
\* whatever the waiter's age; a waiter whose own enqueue time is at least
\* 3 s old is dropped and completed with no-response while its main and the
\* other waiters of that fingerprint stay in place.
C31_WaitersReapedWithMainOrAlone ==
    [][/\ Reaps => C31_WithMain /\ C31_OnItsOwn
       /\ C31_Completed]_vars

\* C31 witness: a tick found a head written less than 3 s ago with two
\* waiters, the first enqueued 3 s ago and the second later; the first has
\* been completed with no-response, the head is queued and the second is
\* alone on its list.
C31_Witness ==
    /\ pending = <<1>>
    /\ reqs[1].SentAt # ZeroTime
    /\ inflight[reqs[1].DataHash] = 1
    /\ Outcome(2) = <<NoResponse>>
    /\ reqs[2].attachedTo = 1
    /\ reqs[1].DataHash \in DOMAIN waiting
    /\ waiting[reqs[1].DataHash] = <<3>>
    /\ Outcome(3) = <<>>
    /\ reaper.pc = "ticker" /\ sinceTick = 0

\* r is the head of the queue and the engine is idle.
IdleHead(r) == pending # <<>> /\ Head(pending) = r /\ respState = respStateIdle

\* A started sendToSerial goroutine of the head has not reached step 1 yet,
\* or CleanupExpired is about to start one.
AttemptOnItsWay ==
    \/ wStart[Head(pending)] > 0
    \/ reaper.pc = "unlocked" /\ reaper.firstWasExpired

\* Whenever the queue is non-empty and the engine idle, an attempt for the
\* head is on its way.
C32_AttemptScheduled ==
    pending # <<>> /\ respState = respStateIdle => AttemptOnItsWay

\* r has been handed to serial.Write, or has left the queue.
AttemptedOrRemoved(r) == r \in Range(linkWrites) \/ r \notin Range(pending)

\* The write of head r is over: the engine waits for its response, or r has
\* left the queue.
WaitingOrRemoved(r) ==
    \/ pending # <<>> /\ Head(pending) = r /\ respState = respStateWaiting
    \/ r \notin Range(pending)

\* The reaper removes the head and leaves a queue: the oldest main that is
\* left is promoted with the engine idle, and the finish of the tick starts
\* its sendToSerial.
C32_ReapPromotes ==
    /\ Reaps /\ pending # <<>> /\ BaseExpired(Head(pending)) /\ pending' # <<>> =>
          /\ pending' = SelectSeq(pending, BaseLive)
          /\ promoted' = Append(promoted, Head(pending'))
          /\ respState' = respStateIdle
          /\ reaper'.firstWasExpired
    /\ ReapFinishes /\ reaper.firstWasExpired /\ pending # <<>> =>
          wStart'[Head(pending)] = wStart[Head(pending)] + 1

\* A flush completes the head and the waiters of its fingerprint and no one
\* else: a request the reaper removed earlier gets nothing from it.
C32_OwnResponse ==
    Flushes =>
        \A r \in Reqs :
            Outcome(r)' # Outcome(r) =>
                /\ reqs[r].DataHash = reqs[Head(pending)].DataHash
                /\ r = Head(pending) \/ r \in Range(WaitingList(reqs[r].DataHash))
                /\ Outcome(r)' = <<Bytes(respBuf)>>

\* C32: no head is stranded.  Whenever the queue is non-empty and respState
\* is idle an attempt for the head is on its way, and it is eventually made
\* unless the head is removed first; a head in sending reaches waiting or is
\* removed; after the head times out the next queued request is promoted,
\* and the response taken for it is delivered to it and its waiters only.
C32_NoHeadStranded ==
    /\ []C32_AttemptScheduled
    /\ \A r \in Reqs : IdleHead(r) ~> AttemptedOrRemoved(r)
    /\ \A r \in Reqs :
          (pending # <<>> /\ Head(pending) = r /\ respState = respStateSending)
              ~> WaitingOrRemoved(r)
    /\ [][C32_ReapPromotes /\ C32_OwnResponse]_vars

\* C32 witness: the first head was written, got no response and has just
\* been removed by the reaper at its timeout; the main queued behind it is
\* the head of an idle engine, no goroutine has been started for it yet and
\* the finish of CleanupExpired is about to start one.
C32_Witness ==
    /\ promoted = <<1, 2>>
    /\ linkWrites = <<1>>
    /\ reaper.pc = "unlocked"
    /\ reaper.expired = <<1>>
    /\ reaper.firstWasExpired
    /\ pending = <<2>>
    /\ wStart[2] = 0
    /\ respState = respStateIdle

\* The delayed Send of slot r gets the lock in this step.
GetsLock(r) == reqs[r].pc = "lock" /\ reqs'[r].pc = "ret"

\* The cache holds a live entry for the fingerprint.
Live(hash) == hash \in DOMAIN cache /\ cache[hash].expireAt >= 0

\* A Send whose first lookup missed and that finds a live entry when it has
\* the lock returns the cached bytes and leaves the queue, the indices, the
\* ID counter and the writers as they are.
C33_LockedStep ==
    \A r \in Reqs :
        GetsLock(r) /\ Live(reqs[r].DataHash) =>
            /\ reqs'[r].kind = "cache"
            /\ Outcome(r)' = <<Bytes(cache[reqs[r].DataHash].data)>>
            /\ reqs'[r].ch = <<cache[reqs[r].DataHash].data>>
            /\ reqs'[r].closed
            /\ UNCHANGED <<pending, inflight, waiting, nextReqID, wStart,
                           wWriting, linkWrites>>

\* No request is handed to serial.Write while the cache holds a live entry
\* for its payload.
C33_NoWriteStep ==
    linkWrites' # linkWrites =>
        ~Live(reqs[linkWrites'[Len(linkWrites')]].DataHash)

\* No main is queued while the cache holds a live entry for its payload.
C33_NoMainWhileLive ==
    \A r \in Range(pending) : ~Live(reqs[r].DataHash)

\* C33: if a Send misses the cache on its first, unlocked lookup and a frame
\* completion for the same fingerprint stores the response before that Send
\* has the engine lock, the second lookup under the lock returns the cached
\* bytes: the request is not enqueued, and no link write is issued for that
\* payload while the entry is live.
C33_SecondLookupClosesRace ==
    /\ []C33_NoMainWhileLive
    /\ [][C33_LockedStep /\ C33_NoWriteStep]_vars

\* C33 witness: the first Send of all missed the cache and was delayed
\* before the lock; a later Send of the same payload was queued, written and
\* completed by a flush; the first Send then got the lock and returned the
\* bytes that flush had stored, with one link write made in all.
C33_Witness ==
    /\ reqs[1].pc = "ret" /\ reqs[1].kind = "cache"
    /\ reqs[2].kind = "main" /\ reqs[2].Request = reqs[1].Request
    /\ GotBytes(2)
    /\ Outcome(1) = Outcome(2)
    /\ linkWrites = <<2>>
    /\ pending = <<>>

\* A finish call has been made on r.
Finished(r) == reqs[r].calls > 0

\* r is in the queue, is the value of an inflight entry or is on a waiter
\* list.
Linked(r) ==
    \/ r \in Range(pending)
    \/ \E h \in DOMAIN inflight : inflight[h] = r
    \/ \E h \in DOMAIN waiting : r \in Range(waiting[h])

\* C34: a request whose completion has been invoked (by frame completion,
\* timeout or write failure) is unlinked from all indices: no completed
\* request is in the queue, is the value of an inflight entry or is on a
\* waiter list.
C34_CompletedIsUnlinked ==
    \A r \in Reqs : Finished(r) => reqs[r].done /\ ~Linked(r)

\* C34 witness: one request has been completed with bytes and one without
\* response, while a third is queued and indexed.
C34_Witness ==
    \E a, b, c \in Reqs :
        /\ Finished(a) /\ GotBytes(a)
        /\ Finished(b) /\ Outcome(b) = <<NoResponse>>
        /\ pending = <<c>>
        /\ inflight[reqs[c].DataHash] = c

\* respState goes from a to b in this step.
Moves(a, b) == respState = a /\ respState' = b

\* A sendToSerial passes step 1 in this step.
PassesGate == linkWrites' # linkWrites

\* A serial.Write of the head returns in this step, with or without error.
WriteOfHeadReturns ==
    /\ pending # <<>>
    /\ wWriting'[Head(pending)] = wWriting[Head(pending)] - 1

\* The returning write of the head has failed.
WriteOfHeadFails ==
    /\ WriteOfHeadReturns
    /\ \E h \in Reqs : h = Head(pending) /\ Outcome(h)' = <<NoResponse>>

\* The tick of this step expires the head.
ReapsHead == Reaps /\ pending # <<>> /\ BaseExpired(Head(pending))

\* The moves of the documented cycle.
C35_Cycle ==
    \/ Moves(respStateIdle, respStateSending) /\ PassesGate
    \/ Moves(respStateSending, respStateWaiting)
          /\ WriteOfHeadReturns /\ ~WriteOfHeadFails
    \/ Moves(respStateWaiting, respStateIdle) /\ (Flushes \/ ReapsHead)

\* The moves from sending back to idle.
C35_Abandon ==
    Moves(respStateSending, respStateIdle) /\ (WriteOfHeadFails \/ ReapsHead)

FirstHeadReaped ==
    1 \in Range(reaper.expired) \/ Outcome(1) = <<NoResponse>>

\* A flushResponseLoop that is past its timer receive gets q.mu in this
\* step, after the head the timer was armed for has been reaped.
LingeringFlushFires ==
    /\ flushLoop'.recv = flushLoop.recv - 1
    /\ FirstHeadReaped

\* The reaper leaves the flush timer and the flush loop as they are.
C36_TimerNotStopped ==
    Reaps => UNCHANGED <<respTimer, flushLoop>>

\* The lingering flush completes no request, removes nothing from the queue
\* and the indices, writes nothing to the cache and leaves the engine state
\* as it is.
C36_Discarded ==
    LingeringFlushFires =>
        /\ UNCHANGED <<reqs, pending, inflight, waiting, cache, respState,
                       currentReqID, wStart>>
        /\ respBuf' = <<>>

\* C36: the frame flush timer is not stopped when the head is reaped, and
\* when that lingering flush later fires it is discarded: it completes no
\* request, removes nothing from the queue, writes nothing to the cache and
\* does not complete the new head with empty or partial data.
C36_LingeringFlushDiscarded ==
    [][C36_TimerNotStopped /\ C36_Discarded]_vars

\* The frames of a sequence, one after the other.
RECURSIVE Concat(_)
Concat(frames) ==
    IF frames = <<>> THEN <<>> ELSE Head(frames) \o Concat(Tail(frames))

\* The step is a read timeout of the serial read loop.
ReadTimesOut == wire'.timeouts = wire.timeouts + 1

\* On a read timeout a non-empty accumulator goes to the engine as one
\* frame, which a waiting engine appends whole to respBuf, and is cleared;
\* an empty accumulator emits nothing and the engine is left alone.
C37_TimeoutStep ==
    ReadTimesOut =>
        /\ serialBuffer' = <<>>
        /\ IF serialBuffer # <<>>
           THEN /\ wire'.frames = Append(wire.frames, serialBuffer)
                /\ respBuf' = IF FrameAccepted THEN respBuf \o serialBuffer
                              ELSE respBuf
           ELSE /\ wire'.frames = wire.frames
                /\ UNCHANGED <<respBuf, respTimer, flushLoop>>

\* Any other step emits nothing, and only a read adds to the accumulator.
C37_OtherStep ==
    ~ReadTimesOut =>
        /\ wire'.frames = wire.frames
        /\ \E n \in 0..MaxChunk :
              /\ Len(wire'.bytes) = Len(wire.bytes) + n
              /\ SubSeq(wire'.bytes, 1, Len(wire.bytes)) = wire.bytes
              /\ serialBuffer' = serialBuffer
                    \o SubSeq(wire'.bytes, Len(wire.bytes) + 1, Len(wire'.bytes))

\* The frames emitted so far followed by the accumulator are the bytes read
\* so far, in their order; no frame is empty and there is at most one per
\* timeout.
C37_NothingLost ==
    /\ Concat(wire.frames) \o serialBuffer = wire.bytes
    /\ \A i \in DOMAIN wire.frames : wire.frames[i] # <<>>
    /\ Len(wire.frames) <= wire.timeouts

\* C37: the frame assembler emits one frame per inactivity gap.  On a read
\* timeout with a non-empty accumulator it hands the engine exactly the
\* in-order concatenation of all bytes read since the previous emit and
\* clears the accumulator; on a read timeout with an empty accumulator it
\* emits nothing; no byte is lost, duplicated or reordered between device
\* reads and emitted frames.
C37_OneFramePerGap ==
    /\ []C37_NothingLost
    /\ [][C37_TimeoutStep /\ C37_OtherStep]_vars

\* C37 witness: two reads, a timeout, a timeout with nothing accumulated,
\* a third read and a timeout: two frames, the first with the bytes of the
\* first two reads, which the waiting engine took and has delivered to its
\* head.
C37_Witness ==
    /\ wire.bytes = <<1, 2, 3>>
    /\ wire.frames = <<(<<1, 2>>), (<<3>>)>>
    /\ wire.timeouts = 3
    /\ serialBuffer = <<>>
    /\ Outcome(1) = <<Bytes(<<1, 2>>)>>

\* The fingerprints of the queued requests.
QueuedFingerprints == {reqs[r].DataHash : r \in Range(pending)}

\* C38: the key set of the inflight index equals the set of fingerprints of
\* the queued requests, with inflight[fp] being that queued request, and
\* every key of the waiter map is a key of the inflight index: no waiter
\* list exists without a queued main of the same fingerprint.
C38_IndicesMatchQueue ==
    /\ DOMAIN inflight = QueuedFingerprints
    /\ \A r \in Range(pending) : inflight[reqs[r].DataHash] = r
    /\ DOMAIN waiting \subseteq DOMAIN inflight
    /\ \A h \in DOMAIN waiting :
           /\ waiting[h] # <<>>
           /\ \A w \in Range(waiting[h]) :
                  reqs[w].DataHash = h /\ reqs[w].kind = "waiter"

\* C38 witness: two mains are queued and indexed, and a Send of the second
\* one's payload has been put on its waiter list.
C38_Witness ==
    \E a, b, w \in Reqs :
        /\ pending = <<a, b>>
        /\ DOMAIN inflight = {reqs[a].DataHash, reqs[b].DataHash}
        /\ DOMAIN waiting = {reqs[b].DataHash}
        /\ waiting[reqs[b].DataHash] = <<w>>

\* The accumulator holds bytes only for a waiting head that is the current
\* request.
C39_AccumulatorHasOwner ==
    respBuf # <<>> =>
        /\ respState = respStateWaiting
        /\ pending # <<>>
        /\ reqs[Head(pending)].ID = currentReqID

\* Bytes are accumulated only for the current head, stay with that head
\* while they are held, and a main that is completed with bytes is the
\* current head and receives the accumulator.
C39_AttributedStep ==
    /\ Len(respBuf') > Len(respBuf) =>
           /\ HeadIsCurrent
           /\ UNCHANGED <<HeadReq, currentReqID, respState>>
    /\ respBuf # <<>> /\ respBuf' # <<>> =>
           UNCHANGED <<HeadReq, currentReqID, respState>>
    /\ \A r \in Reqs :
           reqs[r].kind = "main" /\ GetsBytes(r) =>
               /\ r = Head(pending)
               /\ reqs[r].ID = currentReqID
               /\ respBuf # <<>>
               /\ Outcome(r)' = <<Bytes(respBuf)>>
               /\ respBuf' = <<>>

\* C39: if the response accumulator respBuf is non-empty then respState is
\* waiting, the queue is non-empty and the head's ID equals currentReqID;
\* hence when the flush fires, the accumulated bytes are attributed to the
\* request that was waiting when they were received.
C39_BytesBelongToWaitingHead ==
    []C39_AccumulatorHasOwner /\ [][C39_AttributedStep]_vars

\* C39 witness: the second request of the run is the waiting head with
\* bytes accumulated for it, after the first was completed with its own.
C39_Witness ==
    \E a, b \in Reqs :
        /\ reqs[a].ID = 1 /\ GotBytes(a)
        /\ reqs[b].ID = 2 /\ pending = <<b>>
        /\ currentReqID = 2
        /\ respState = respStateWaiting
        /\ respBuf # <<>>
        /\ respTimer = "armed"

\* While a link write is in progress its request is the unsent head and no
\* request is current.
C40_SendingHasUnsentHead ==
    respState = respStateSending =>
        /\ pending # <<>>
        /\ currentReqID = 0
        /\ reqs[Head(pending)].SentAt = ZeroTime

\* The engine is idle whenever the queue is empty.
C40_IdleWhenEmpty == pending = <<>> => respState = respStateIdle

\* A request is enqueued into an empty queue in this step.
SendIntoEmptyQueue == pending = <<>> /\ pending' # <<>>

\* A Send into an empty queue finds the engine idle and leaves it so, with
\* a writer started for the new head.
C40_SendIntoEmptyStep ==
    SendIntoEmptyQueue =>
        /\ respState = respStateIdle
        /\ currentReqID = 0
        /\ UNCHANGED <<respState, currentReqID>>
        /\ wStart'[Head(pending')] = wStart[Head(pending')] + 1

\* C40: if respState is sending then the queue is non-empty, currentReqID
\* is 0 and the head's SentAt is unset; consequently respState is never
\* non-idle while the queue is empty, so a Send into an empty queue always
\* finds the engine idle.
C40_SendingImpliesUnsentHead ==
    /\ []C40_SendingHasUnsentHead
    /\ []C40_IdleWhenEmpty
    /\ [][C40_SendIntoEmptyStep]_vars

\* C40 witness: the second request of the run was sent into the queue the
\* completed first one had left empty, and its link write is in progress.
C40_Witness ==
    \E a, b \in Reqs :
        /\ reqs[a].ID = 1 /\ Outcome(a) # <<>>
        /\ reqs[b].ID = 2 /\ pending = <<b>>
        /\ promoted = <<a, b>>
        /\ respState = respStateSending
        /\ wWriting[b] = 1
        /\ currentReqID = 0
        /\ reqs[b].SentAt = ZeroTime

=============================================================================
